---- MODULE Spec2Model ----
(***************************************************************************)
(* GTFS-Analyzer: the calendar resolver (utils/gtfs_parser.py) and the     *)
(* metrics engine (utils/metrics_calculator.py) over a loaded table set.   *)
(*                                                                         *)
(* A table is a sequence of rows (records) in file order.  gtfs_data is    *)
(* the dict of tables: gtfs_data.keys are the table names present in the   *)
(* dict, an absent table's field is the empty sequence.  call and result   *)
(* are the last engine call and what it returned or raised.                *)
(*                                                                         *)
(* Times are "HH:MM:SS" strings in the feed; they are modelled by their    *)
(* fields (kind "hms", or "h:mm:ss" for an hour written with one digit),   *)
(* by the missing value pandas reads for an empty cell (kind "nan") or by  *)
(* a string that does not parse (kind "bad").                              *)
(* Minutes are floats in the code (h*60 + m + s/60); the model keeps them  *)
(* in units of 1/60 minute so that they stay integers.                     *)
(***************************************************************************)
EXTENDS Integers, Sequences, FiniteSets, TLC

VARIABLES gtfs_data, call, result, kept, threads, session

vars == <<gtfs_data, call, result, kept, threads, session>>

(***************************************************************************)
(* Bounds of the explored feeds.                                           *)
(***************************************************************************)
MaxCalRows == 1

MaxExcRows == 2

MaxTrips == 3

MaxPeakTrips == 2

MaxStopTimes == 3

(***************************************************************************)
(* Generic helpers.                                                        *)
(***************************************************************************)
SeqsUpTo(S, n) == UNION {[1..k -> S] : k \in 0..n}

Elems(seq) == {seq[i] : i \in 1..Len(seq)}

NoneId == "None"

Ok(v) == [status |-> "ok", error |-> "", value |-> v]

Raised(e) == [status |-> "error", error |-> e, value |-> <<>>]

Has(gtfs, table) == table \in gtfs.keys

Call(op, date, service_id, route_id) ==
    [op |-> op, date |-> date, service_id |-> service_id, route_id |-> route_id]

\* kept: a call and the result it returned, as a caller holds on to them, and
\* whether another call was made since;
\* threads: the calls under way when several run at once (none otherwise)
NoneKept ==
    [call |-> Call("none", 0, NoneId, NoneId), result |-> Ok(<<>>), other |-> FALSE]

NoThreads == <<>>

\* session: the dashboard's st.session_state and the position of its script
\* (before any run, when only the engine is looked at): the stored feed URL,
\* whether a table set is stored (gtfs_data then holds it), the line the run
\* is at, the analysis date, the active services and the service_id of the
\* run, the service_ids its metric calls were given, the outcome and URL of
\* the last load, and the table sets cached by URL
NoSession ==
    [gtfs_url |-> "", loaded |-> FALSE, pc |-> 0, date |-> 0,
     active_services |-> <<>>, service_id |-> NoneId, used |-> {},
     last_load |-> "none", last_url |-> "", cache |-> {}]

(***************************************************************************)
(* Calendar resolver: get_active_service.                                  *)
(* Dates are day ordinals; day 0 is a monday.                              *)
(***************************************************************************)
DayNames ==
    <<"monday", "tuesday", "wednesday", "thursday", "friday", "saturday", "sunday">>

DayName(date) == DayNames[(date % Len(DayNames)) + 1]

\* lines 66-70: the rows of calendar in range with the weekday flag set
ActiveCalendar(calendar, date) ==
    SelectSeq(calendar,
              LAMBDA r : /\ r.start_date <= date
                         /\ r.end_date >= date
                         /\ r[DayName(date)] = 1)

ServiceIdList(rows) == [i \in 1..Len(rows) |-> rows[i].service_id]

\* line 81: the exception rows of exactly this date
ExceptionsOn(calendar_dates, date) ==
    SelectSeq(calendar_dates, LAMBDA r : r.date = date)

\* lines 84-88 on the list of line 71: a list has neither add nor discard,
\* so the first row of type 1 or 2 raises AttributeError
RECURSIVE ApplyExceptionsToList(_, _)
ApplyExceptionsToList(active, exceptions) ==
    IF exceptions = <<>> THEN Ok(active)
    ELSE IF Head(exceptions).exception_type = 1 THEN Raised("AttributeError")
    ELSE IF Head(exceptions).exception_type = 2 THEN Raised("AttributeError")
    ELSE ApplyExceptionsToList(active, Tail(exceptions))

\* lines 84-88 as they act on a set (kept as a duplicate-free sequence)
RECURSIVE ApplyExceptionsToSet(_, _)
ApplyExceptionsToSet(active, exceptions) ==
    IF exceptions = <<>> THEN Ok(active)
    ELSE LET row == Head(exceptions)
             sid == row.service_id
             nxt == IF row.exception_type = 1
                    THEN (IF sid \in Elems(active) THEN active ELSE Append(active, sid))
                    ELSE IF row.exception_type = 2
                    THEN SelectSeq(active, LAMBDA x : x # sid)
                    ELSE active
         IN  ApplyExceptionsToSet(nxt, Tail(exceptions))

\* the calendar_dates block moved out of the calendar block: it then also runs
\* on the empty set of line 55 when calendar is absent
GetActiveServiceDedented(gtfs, date) ==
    LET base == IF Has(gtfs, "calendar")
                THEN ServiceIdList(ActiveCalendar(gtfs.calendar, date))
                ELSE <<>>
        exceptions == ExceptionsOn(gtfs.calendar_dates, date)
    IN  IF ~Has(gtfs, "calendar_dates") THEN Ok(base)
        ELSE IF Has(gtfs, "calendar") THEN ApplyExceptionsToList(base, exceptions)
        ELSE ApplyExceptionsToSet(base, exceptions)

\* get_active_service, lines 51-90
GetActiveService(gtfs, date) ==
    IF Has(gtfs, "calendar")
    THEN LET active_services == ServiceIdList(ActiveCalendar(gtfs.calendar, date))
         IN  IF Has(gtfs, "calendar_dates")
             THEN ApplyExceptionsToList(active_services,
                                        ExceptionsOn(gtfs.calendar_dates, date))
             ELSE Ok(active_services)
    ELSE Ok(<<>>)

(***************************************************************************)
(* Table rows.  NA is the missing value pandas reads for an empty cell of  *)
(* a text column.                                                          *)
(***************************************************************************)
NA == "NaN"

Time(h, m, s) == [kind |-> "hms", h |-> h, m |-> m, s |-> s]

\* a time written H:MM:SS, the hour (below 10) without its leading zero
ShortTime(h, m, s) == [kind |-> "h:mm:ss", h |-> h, m |-> m, s |-> s]

NaT == [kind |-> "nan", h |-> 0, m |-> 0, s |-> 0]

BadTime == [kind |-> "bad", h |-> 0, m |-> 0, s |-> 0]

RouteRow(id, short, long) ==
    [route_id |-> id, route_short_name |-> short, route_long_name |-> long]

TripRow(id, route, service, direction, shape) ==
    [trip_id |-> id, route_id |-> route, service_id |-> service,
     direction_id |-> direction, shape_id |-> shape]

StopTimeRow(trip, seq, arr, dep, stop) ==
    [trip_id |-> trip, stop_sequence |-> seq, arrival_time |-> arr,
     departure_time |-> dep, stop_id |-> stop]

StopRow(id, name) == [stop_id |-> id, stop_name |-> name]

CalendarRow(sid, start, end, flags) ==
    [service_id |-> sid, start_date |-> start, end_date |-> end,
     monday |-> flags[1], tuesday |-> flags[2], wednesday |-> flags[3],
     thursday |-> flags[4], friday |-> flags[5], saturday |-> flags[6],
     sunday |-> flags[7]]

CalendarDateRow(sid, date, type) ==
    [service_id |-> sid, date |-> date, exception_type |-> type]

RequiredTables == {"agency", "stops", "routes", "trips", "stop_times"}

ShapeRow(id, seq, lat, lon) ==
    [shape_id |-> id, shape_pt_sequence |-> seq, shape_pt_lat |-> lat,
     shape_pt_lon |-> lon]

Feed(keys, routes, trips, stop_times, stops, calendar, calendar_dates) ==
    [keys |-> keys, routes |-> routes, trips |-> trips, stop_times |-> stop_times,
     stops |-> stops, calendar |-> calendar, calendar_dates |-> calendar_dates,
     shapes |-> <<>>]

(***************************************************************************)
(* The feeds explored for the calendar resolver.                           *)
(***************************************************************************)
ServiceIds == {"S1", "S2"}

Dates == {1, 2, 3}

DateRanges == {<<1, 3>>, <<2, 3>>, <<1, 1>>}

WeekFlags == {<<1, 1, 1, 1, 1, 0, 0>>, <<1, 1, 0, 1, 1, 0, 0>>}

CalendarRows ==
    {CalendarRow(sid, r[1], r[2], f) : sid \in ServiceIds, r \in DateRanges, f \in WeekFlags}

CalendarDateRows ==
    {CalendarDateRow(sid, d, t) : sid \in ServiceIds, d \in {2, 3}, t \in {1, 2}}

FixtureRoutes == <<RouteRow("R1", "1", "Main")>>

FixtureTrips == <<TripRow("T1", "R1", "S1", 0, "SH1")>>

FixtureStopTimes == <<StopTimeRow("T1", 1, Time(8, 0, 0), Time(8, 0, 0), "A")>>

FixtureStops == <<StopRow("A", "Alpha"), StopRow("B", "Beta")>>

InitCalendar ==
    /\ \E keys \in SUBSET {"calendar", "calendar_dates"},
          calendar \in SeqsUpTo(CalendarRows, MaxCalRows),
          calendar_dates \in SeqsUpTo(CalendarDateRows, MaxExcRows) :
            /\ ("calendar" \notin keys => calendar = <<>>)
            /\ ("calendar_dates" \notin keys => calendar_dates = <<>>)
            /\ gtfs_data = Feed(RequiredTables \cup keys, FixtureRoutes, FixtureTrips,
                                FixtureStopTimes, FixtureStops, calendar, calendar_dates)
    /\ call = Call("none", 0, NoneId, NoneId)
    /\ result = Ok(<<>>)
    /\ kept = NoneKept
    /\ threads = NoThreads
    /\ session = NoSession

\* get_active_service(gtfs_data, date), as the dashboard calls it (app.py line 61)
GetActiveServiceCall ==
    \E date \in Dates :
        /\ call' = Call("get_active_service", date, NoneId, NoneId)
        /\ result' = GetActiveService(gtfs_data, date)
        /\ UNCHANGED <<gtfs_data, kept, threads, session>>

NextCalendar == GetActiveServiceCall

SpecCalendar == InitCalendar /\ [][NextCalendar]_vars

(***************************************************************************)
(* The active set the calendar contract describes: weekday and range, the  *)
(* date's type 1 exceptions added, the date's type 2 exceptions removed.   *)
(***************************************************************************)
BaseServices(gtfs, date) ==
    {r.service_id : r \in {x \in Elems(gtfs.calendar) :
                              /\ x.start_date <= date
                              /\ date <= x.end_date
                              /\ x[DayName(date)] = 1}}

AddedServices(gtfs, date) ==
    {r.service_id : r \in {x \in Elems(gtfs.calendar_dates) :
                              x.date = date /\ x.exception_type = 1}}

RemovedServices(gtfs, date) ==
    {r.service_id : r \in {x \in Elems(gtfs.calendar_dates) :
                              x.date = date /\ x.exception_type = 2}}

\* C1: with a calendar table, activeServices returns exactly the services of
\* the weekday and range, plus the date's type 1 exceptions, minus the date's
\* type 2 exceptions.
C1_CalendarCorrectness ==
    (call.op = "get_active_service" /\ Has(gtfs_data, "calendar")) =>
        /\ result.status = "ok"
        /\ Elems(result.value) =
               (BaseServices(gtfs_data, call.date) \cup AddedServices(gtfs_data, call.date))
                   \ RemovedServices(gtfs_data, call.date)

\* C2: without a calendar table activeServices returns the empty set and does
\* not raise, whatever calendar_dates holds.
C2_NoCalendarEmpty ==
    (call.op = "get_active_service" /\ ~Has(gtfs_data, "calendar")) =>
        /\ result.status = "ok"
        /\ result.value = <<>>

C2_Witness ==
    /\ call.op = "get_active_service"
    /\ ~Has(gtfs_data, "calendar")
    /\ AddedServices(gtfs_data, call.date) # {}
    /\ result = Ok(<<>>)

(***************************************************************************)
(* pandas operations used by the metrics engine.                           *)
(***************************************************************************)
\* the strings used as identifiers and names, in Python's string order
SortedStrings ==
    <<"1", "1X", "2", "3", "A", "Alpha", "B", "Beta", "C", "Main", "Oak", "Pine", "R1",
      "R2", "R3", "S1", "S2", "SH1", "SH2", "T1", "T2", "T3", "T4", "T5", "T6">>

Rank(s) == CHOOSE i \in 1..Len(SortedStrings) : SortedStrings[i] = s

RECURSIVE SumSeq(_)
SumSeq(seq) == IF seq = <<>> THEN 0 ELSE Head(seq) + SumSeq(Tail(seq))

\* a stable sort, sort_values on a frame: less[<<j, i>>] says that row j sorts
\* before row i by the sort column(s)
SortBy(seq, less) ==
    LET n == Len(seq)
        pos(i) == 1 + Cardinality({j \in 1..n :
                         \/ less[<<j, i>>]
                         \/ (~less[<<i, j>>] /\ j < i)})
    IN  [p \in 1..n |-> seq[CHOOSE i \in 1..n : pos(i) = p]]

Pairs(seq) == (1..Len(seq)) \X (1..Len(seq))

\* integers in ascending order
SortedInts(S) ==
    LET pos(x) == 1 + Cardinality({y \in S : y < x})
    IN  [p \in 1..Cardinality(S) |-> CHOOSE x \in S : pos(x) = p]

\* strings in ascending order: the group keys of a groupby on an id column
SortedIds(S) ==
    LET pos(x) == 1 + Cardinality({y \in S : Rank(y) < Rank(x)})
    IN  [p \in 1..Cardinality(S) |-> CHOOSE x \in S : pos(x) = p]

\* pd.merge(left, right, on=key): the inner join, in the order of the left rows
RECURSIVE Merge(_, _, _)
Merge(left, right, key) ==
    IF left = <<>> THEN <<>>
    ELSE LET l == Head(left)
             matches == SelectSeq(right, LAMBDA r : r[key] = l[key])
         IN  [i \in 1..Len(matches) |-> l @@ matches[i]] \o Merge(Tail(left), right, key)

\* frame[frame['service_id'] == service_id] when a service_id is given
FilterService(rows, service_id) ==
    IF service_id # NoneId
    THEN SelectSeq(rows, LAMBDA r : r.service_id = service_id)
    ELSE rows

\* gtfs_data[table] on a table the dict does not hold: KeyError(table), whose
\* message is the table's name
KeyError(table) ==
    Raised(CASE table = "routes" -> "KeyError: 'routes'"
             [] table = "trips" -> "KeyError: 'trips'"
             [] table = "stop_times" -> "KeyError: 'stop_times'"
             [] table = "stops" -> "KeyError: 'stops'"
             [] OTHER -> "KeyError")

\* the first of the tables, in the order the code reads them, that is absent
FirstAbsent(gtfs, tables) ==
    tables[CHOOSE i \in 1..Len(tables) :
               /\ ~Has(gtfs, tables[i])
               /\ \A j \in 1..(i - 1) : Has(gtfs, tables[j])]

\* the last row of the trip that holds the trip's minimum stop_sequence
IdxMinLast(rows, trip) ==
    CHOOSE i \in 1..Len(rows) :
        /\ rows[i].trip_id = trip
        /\ \A j \in 1..Len(rows) :
               rows[j].trip_id = trip =>
                   \/ rows[i].stop_sequence < rows[j].stop_sequence
                   \/ (rows[i].stop_sequence = rows[j].stop_sequence /\ i >= j)

\* groupby('trip_id')['stop_sequence'].idxmin(): the first row of the trip that
\* holds the trip's minimum stop_sequence
IdxMin(rows, trip) ==
    CHOOSE i \in 1..Len(rows) :
        /\ rows[i].trip_id = trip
        /\ \A j \in 1..Len(rows) :
               rows[j].trip_id = trip =>
                   \/ rows[i].stop_sequence < rows[j].stop_sequence
                   \/ (rows[i].stop_sequence = rows[j].stop_sequence /\ i <= j)

\* every row that holds its trip's minimum stop_sequence (filtering on the
\* minimum instead of taking idxmin)
FirstStopsAllMinima(rows) ==
    LET minima == SelectSeq(rows, LAMBDA r : \A j \in 1..Len(rows) :
                                rows[j].trip_id = r.trip_id =>
                                    r.stop_sequence <= rows[j].stop_sequence)
    IN  SortBy(minima, [p \in Pairs(minima) |->
                          Rank(minima[p[1]].trip_id) < Rank(minima[p[2]].trip_id)])

\* frame.loc[frame.groupby('trip_id')['stop_sequence'].idxmin()]: one row per
\* trip_id, the groups in key order
FirstStops(rows) ==
    LET trips == SortedIds({rows[i].trip_id : i \in 1..Len(rows)})
    IN  [k \in 1..Len(trips) |-> rows[IdxMin(rows, trips[k])]]

(***************************************************************************)
(* Time conversions.  A number that may be NaN is [nan, v].                *)
(***************************************************************************)
Num(v) == [nan |-> FALSE, v |-> v]

NaN == [nan |-> TRUE, v |-> 0]

\* int() takes the hour with or without a leading zero
Parses(t) == t.kind \in {"hms", "h:mm:ss"}

\* what int()/split raise: a float NaN has no split, a bad string is no int
ParseError(t) == IF t.kind = "nan" THEN "AttributeError" ELSE "ValueError"

\* time_to_minutes: h * 60 + m + s/60, here times 60
Minutes60(t) == (t.h * 60 + t.m) * 60 + t.s

\* time_to_seconds, pd.to_timedelta: h * 3600 + m * 60 + s
Seconds(t) == t.h * 3600 + t.m * 60 + t.s

(***************************************************************************)
(* calculate_route_frequencies                                             *)
(***************************************************************************)
\* groupby('route_id')['departure_mins'].diff(): the difference to the previous
\* row of the same route, NaN for the route's first row
GroupDiff(rows) ==
    [i \in 1..Len(rows) |->
        LET before == {j \in 1..(i - 1) : rows[j].route_id = rows[i].route_id}
        IN  IF before = {} THEN NaN
            ELSE LET j == CHOOSE x \in before : \A y \in before : y <= x
                 IN  Num(rows[i].departure_mins - rows[j].departure_mins)]

\* the mean of a column of headways, NaN skipped: [nan, sum, n]
Mean(headways) ==
    LET valid == SelectSeq(headways, LAMBDA x : ~x.nan)
    IN  IF valid = <<>> THEN [nan |-> TRUE, sum |-> 0, n |-> 0]
        ELSE [nan |-> FALSE, sum |-> SumSeq([i \in 1..Len(valid) |-> valid[i].v]),
              n |-> Len(valid)]

RouteKey(r) == <<r.route_id, r.route_short_name, r.route_long_name>>

KeyLess(a, b) ==
    \/ Rank(a[1]) < Rank(b[1])
    \/ a[1] = b[1] /\ Rank(a[2]) < Rank(b[2])
    \/ a[1] = b[1] /\ a[2] = b[2] /\ Rank(a[3]) < Rank(b[3])

\* the group keys of groupby([...]), sorted: rows with NaN in a key column are
\* dropped
GroupKeys(rows) ==
    LET S == {k \in {RouteKey(rows[i]) : i \in 1..Len(rows)} : \A c \in 1..3 : k[c] # NA}
        pos(x) == 1 + Cardinality({y \in S : KeyLess(y, x)})
    IN  [p \in 1..Cardinality(S) |-> CHOOSE x \in S : pos(x) = p]

\* a mean that counts the undefined headway of the first trip as 0
HeadwayMeanFillZero(rows, headway, key) ==
    LET idx == {i \in 1..Len(rows) : RouteKey(rows[i]) = key}
        col == SortedInts(idx)
    IN  Mean([k \in 1..Len(col) |->
                 IF headway[col[k]].nan THEN Num(0) ELSE headway[col[k]]])

\* lines 67-72, one group: the mean of headway_min over the rows of the key
HeadwayMean(rows, headway, key) ==
    LET idx == {i \in 1..Len(rows) : RouteKey(rows[i]) = key}
        col == SortedInts(idx)
    IN  Mean([k \in 1..Len(col) |-> headway[col[k]]])

\* the order of sort_values(ascending=False): the longest headway first
AvgGreater(a, b) ==
    /\ ~a.nan
    /\ (b.nan \/ a.sum * b.n > b.sum * a.n)

\* NaN last, as sort_values puts it
AvgLess(a, b) ==
    /\ ~a.nan
    /\ (b.nan \/ a.sum * b.n < b.sum * a.n)

\* calculate_route_frequencies, lines 45-77
CalculateRouteFrequencies(gtfs, service_id) ==
    IF ~({"routes", "trips", "stop_times"} \subseteq gtfs.keys)
    THEN KeyError(FirstAbsent(gtfs, <<"routes", "trips", "stop_times">>))
    ELSE
    LET routes_trips == Merge(gtfs.routes, gtfs.trips, "route_id")
        routes_stop_times ==
            FilterService(Merge(routes_trips, gtfs.stop_times, "trip_id"), service_id)
        unparsed == SelectSeq(routes_stop_times, LAMBDA r : ~Parses(r.departure_time))
    IN  IF unparsed # <<>> THEN Raised(ParseError(Head(unparsed).departure_time))
        ELSE
        LET with_mins ==
                [i \in 1..Len(routes_stop_times) |->
                    routes_stop_times[i] @@
                    [departure_mins |-> Minutes60(routes_stop_times[i].departure_time)]]
            unsorted == FirstStops(with_mins)
            first_stops ==
                SortBy(unsorted,
                       [p \in Pairs(unsorted) |->
                           LET a == unsorted[p[1]]
                               b == unsorted[p[2]]
                           IN  \/ Rank(a.route_id) < Rank(b.route_id)
                               \/ /\ a.route_id = b.route_id
                                  /\ a.departure_mins < b.departure_mins])
            headway_min == GroupDiff(first_stops)
            keys == GroupKeys(first_stops)
            avg_headway ==
                [k \in 1..Len(keys) |->
                    [route_id |-> keys[k][1],
                     route_short_name |-> keys[k][2],
                     route_long_name |-> keys[k][3],
                     avg_headway_min |-> HeadwayMean(first_stops, headway_min, keys[k])]]
        IN  Ok(SortBy(avg_headway,
                      [p \in Pairs(avg_headway) |->
                          AvgLess(avg_headway[p[1]].avg_headway_min,
                                  avg_headway[p[2]].avg_headway_min)]))

(***************************************************************************)
(* The feeds explored for the route frequencies: every trip has its first  *)
(* stop listed after a later stop, or no stop_times at all.                *)
(***************************************************************************)
TripIds == <<"T1", "T2", "T3", "T4", "T5", "T6">>

NoStopTimes == [kind |-> "none", h |-> 0, m |-> 0, s |-> 0]

RECURSIVE Flatten(_)
Flatten(seqs) == IF seqs = <<>> THEN <<>> ELSE Head(seqs) \o Flatten(Tail(seqs))

HourLater(t) == IF t.kind = "hms" THEN Time(t.h + 1, t.m, t.s) ELSE t

TripsOf(choices) ==
    [i \in 1..Len(choices) |->
        TripRow(TripIds[i], choices[i].route, choices[i].service,
                choices[i].direction, choices[i].shape)]

StopTimesOf(choices) ==
    Flatten([i \in 1..Len(choices) |->
        IF choices[i].dep = NoStopTimes THEN <<>>
        ELSE <<StopTimeRow(TripIds[i], 2, HourLater(choices[i].dep),
                           HourLater(choices[i].dep), "B"),
               StopTimeRow(TripIds[i], 1, choices[i].dep, choices[i].dep, "A")>>])

TripFeed(routes, choices) ==
    Feed(RequiredTables, routes, TripsOf(choices), StopTimesOf(choices),
         FixtureStops, <<>>, <<>>)

Choice(route, service, dep) ==
    [route |-> route, service |-> service, dep |-> dep, direction |-> 0, shape |-> "SH1"]

RouteTables ==
    {<<RouteRow("R1", "1", "Main")>>,
     <<RouteRow("R1", "1", "Main"), RouteRow("R2", "2", "Oak")>>,
     <<RouteRow("R1", "1", NA), RouteRow("R2", "2", "Oak")>>,
     <<RouteRow("R1", "1", "Main"), RouteRow("R1", "1X", "Main"),
       RouteRow("R2", NA, "Oak")>>}

FrequencyChoices ==
    {Choice("R1", sid, t) : sid \in ServiceIds,
                            t \in {Time(8, 0, 0), Time(8, 10, 0), Time(8, 30, 0)}}
        \cup {Choice("R2", "S1", Time(8, 10, 0)), Choice("R2", "S1", NoStopTimes)}

\* T1 08:00 (R1, S1), T2 08:30 (R1, S1), T3 08:10 (R1, S2)
ScenarioFeed ==
    TripFeed(<<RouteRow("R1", "1", "Main")>>,
             <<Choice("R1", "S1", Time(8, 0, 0)), Choice("R1", "S1", Time(8, 30, 0)),
               Choice("R1", "S2", Time(8, 10, 0))>>)

InitFrequencies ==
    /\ \E routes \in RouteTables, choices \in SeqsUpTo(FrequencyChoices, MaxTrips) :
           gtfs_data = TripFeed(routes, choices)
    /\ call = Call("none", 0, NoneId, NoneId)
    /\ result = Ok(<<>>)
    /\ kept = NoneKept
    /\ threads = NoThreads
    /\ session = NoSession

ServiceArgs == ServiceIds \cup {NoneId}

\* the call with line 54 writing departure_mins into the loaded stop_times
\* table instead of the joined frame
CalculateRouteFrequenciesCallInPlace ==
    \E service_id \in ServiceArgs :
        /\ call' = Call("calculate_route_frequencies", 0, service_id, NoneId)
        /\ result' = CalculateRouteFrequencies(gtfs_data, service_id)
        /\ gtfs_data' =
               [gtfs_data EXCEPT !.stop_times =
                   [i \in 1..Len(@) |->
                       @[i] @@ [departure_mins |->
                                   IF Parses(@[i].departure_time)
                                   THEN Num(Minutes60(@[i].departure_time))
                                   ELSE NaN]]]
        /\ UNCHANGED <<kept, threads, session>>

\* calculate_route_frequencies(gtfs_data, service_id)
CalculateRouteFrequenciesCall ==
    \E service_id \in ServiceArgs :
        /\ call' = Call("calculate_route_frequencies", 0, service_id, NoneId)
        /\ result' = CalculateRouteFrequencies(gtfs_data, service_id)
        /\ UNCHANGED <<gtfs_data, kept, threads, session>>

NextFrequencies == CalculateRouteFrequenciesCall

SpecFrequencies == InitFrequencies /\ [][NextFrequencies]_vars

(***************************************************************************)
(* What the contract says of the filtered trips, stated on the tables.     *)
(***************************************************************************)
\* the trips of the filtered set that have stop_times
FilteredTrips(gtfs, service_id) ==
    {t \in Elems(gtfs.trips) :
        /\ service_id = NoneId \/ t.service_id = service_id
        /\ \E st \in Elems(gtfs.stop_times) : st.trip_id = t.trip_id}

\* the departure at the trip's origin: minimum stop_sequence, the first such row
FirstDeparture(gtfs, trip_id) ==
    LET st == gtfs.stop_times
        own == {i \in 1..Len(st) : st[i].trip_id = trip_id}
        least == {i \in own : \A j \in own : st[i].stop_sequence <= st[j].stop_sequence}
    IN  st[CHOOSE i \in least : \A j \in least : i <= j].departure_time

RouteTrips(gtfs, service_id, route_id) ==
    {t \in FilteredTrips(gtfs, service_id) : t.route_id = route_id}

RouteIdsOf(gtfs) == {r.route_id : r \in Elems(gtfs.routes)}

MaxOf(S) == CHOOSE x \in S : \A y \in S : y <= x

MinOf(S) == CHOOSE x \in S : \A y \in S : x <= y

AvgIs(avg, minutes) == ~avg.nan /\ avg.sum = minutes * 60 * avg.n

\* C3: each row of routeFrequencies holds the mean of the successive
\* differences of the route's sorted first-stop departures (their sum is last
\* minus first, their number one less than the trips); in the scenario the
\* result is one row for R1, 30 minutes with S1 and 15 minutes (headways 10
\* and 20) with no service_id.
C3_MeanHeadway ==
    (call.op = "calculate_route_frequencies" /\ result.status = "ok") =>
        /\ \A i \in 1..Len(result.value) :
               LET row == result.value[i]
                   trips == RouteTrips(gtfs_data, call.service_id, row.route_id)
                   deps == {Minutes60(FirstDeparture(gtfs_data, t.trip_id)) : t \in trips}
                   avg == row.avg_headway_min
               IN  /\ trips # {}
                   /\ Cardinality(trips) = 1 => avg.nan
                   /\ Cardinality(trips) >= 2 =>
                          /\ ~avg.nan
                          /\ avg.n = Cardinality(trips) - 1
                          /\ avg.sum = MaxOf(deps) - MinOf(deps)
        /\ (gtfs_data = ScenarioFeed /\ call.service_id = "S1") =>
               /\ Len(result.value) = 1
               /\ result.value[1].route_id = "R1"
               /\ AvgIs(result.value[1].avg_headway_min, 30)
        /\ (gtfs_data = ScenarioFeed /\ call.service_id = NoneId) =>
               /\ Len(result.value) = 1
               /\ result.value[1].route_id = "R1"
               /\ result.value[1].avg_headway_min.n = 2
               /\ AvgIs(result.value[1].avg_headway_min, 15)

C3_Witness ==
    /\ gtfs_data = ScenarioFeed
    /\ call.op = "calculate_route_frequencies"
    /\ call.service_id = NoneId
    /\ result.status = "ok"
    /\ Len(result.value) = 1
    /\ AvgIs(result.value[1].avg_headway_min, 15)

\* C4: a route with exactly one trip in the filtered set is retained in the
\* result of routeFrequencies, with a null avg_headway_min.
C4_SingleTripRetained ==
    (call.op = "calculate_route_frequencies" /\ result.status = "ok") =>
        \A r \in RouteIdsOf(gtfs_data) :
            Cardinality(RouteTrips(gtfs_data, call.service_id, r)) = 1 =>
                \E i \in 1..Len(result.value) :
                    /\ result.value[i].route_id = r
                    /\ result.value[i].avg_headway_min.nan

\* C5: routeFrequencies has exactly one row for every route_id with a trip
\* (with stop_times) in the filtered set, whatever the route's names are and
\* however often the route_id occurs in routes.
C5_OneRowPerRoute ==
    (call.op = "calculate_route_frequencies" /\ result.status = "ok") =>
        /\ {result.value[i].route_id : i \in 1..Len(result.value)} =
               {r \in RouteIdsOf(gtfs_data) :
                    RouteTrips(gtfs_data, call.service_id, r) # {}}
        /\ \A i, j \in 1..Len(result.value) :
               result.value[i].route_id = result.value[j].route_id => i = j

(***************************************************************************)
(* calculate_trips_by_hour                                                 *)
(***************************************************************************)
\* the hours taken on the 24-hour clock: 25:10:00 counts under hour 1
TripsPerHourWallClock(first_stops) ==
    LET hours == SortedInts({first_stops[i].departure_time.h % 24 :
                                i \in 1..Len(first_stops)})
    IN  [k \in 1..Len(hours) |->
            [hour |-> hours[k],
             trip_count |-> Cardinality({first_stops[i].trip_id : i \in
                                {j \in 1..Len(first_stops) :
                                    first_stops[j].departure_time.h % 24 = hours[k]}})]]

\* lines 207-214: per hour the number of distinct trip_ids, ascending by hour
TripsPerHour(first_stops) ==
    LET hours == SortedInts({first_stops[i].departure_time.h : i \in 1..Len(first_stops)})
    IN  [k \in 1..Len(hours) |->
            [hour |-> hours[k],
             trip_count |-> Cardinality({first_stops[i].trip_id : i \in
                                {j \in 1..Len(first_stops) :
                                    first_stops[j].departure_time.h = hours[k]}})]]

\* the function converting the first-stop departures of every trip, those
\* outside the service filter included (line 204 before lines 194-195)
CalculateTripsByHourConvertingAll(gtfs, service_id) ==
    IF ~({"trips", "stop_times"} \subseteq gtfs.keys)
    THEN KeyError(FirstAbsent(gtfs, <<"trips", "stop_times">>))
    ELSE
    LET all_first_stops == FirstStops(Merge(gtfs.trips, gtfs.stop_times, "trip_id"))
        first_stops == FilterService(all_first_stops, service_id)
        unparsed == SelectSeq(all_first_stops, LAMBDA r : ~Parses(r.departure_time))
    IN  IF unparsed # <<>> THEN Raised(ParseError(Head(unparsed).departure_time))
        ELSE Ok(TripsPerHour(first_stops))

\* calculate_trips_by_hour, lines 191-216
CalculateTripsByHour(gtfs, service_id) ==
    IF ~({"trips", "stop_times"} \subseteq gtfs.keys)
    THEN KeyError(FirstAbsent(gtfs, <<"trips", "stop_times">>))
    ELSE
    LET trips_stop_times ==
            FilterService(Merge(gtfs.trips, gtfs.stop_times, "trip_id"), service_id)
        first_stops == FirstStops(trips_stop_times)
        unparsed == SelectSeq(first_stops, LAMBDA r : ~Parses(r.departure_time))
    IN  IF unparsed # <<>> THEN Raised(ParseError(Head(unparsed).departure_time))
        ELSE Ok(TripsPerHour(first_stops))

(***************************************************************************)
(* calculate_peak_offpeak_metrics                                          *)
(***************************************************************************)
T0400 == 4 * 3600

T0600 == 6 * 3600

T0900 == 9 * 3600

T1500 == 15 * 3600

T1800 == 18 * 3600

T2200 == 22 * 3600

\* the lower bound of Early AM taken exclusive
GetTimeBlockOpenLower(time_delta) ==
    IF time_delta.kind = "nan" THEN "Pre-Early AM/Other"
    ELSE LET t == Seconds(time_delta)
         IN  IF T0400 < t /\ t < T0600 THEN "Early AM"
             ELSE IF T0600 <= t /\ t < T0900 THEN "AM Peak"
             ELSE IF T0900 <= t /\ t < T1500 THEN "Base"
             ELSE IF T1500 <= t /\ t < T1800 THEN "PM Peak"
             ELSE IF T1800 <= t /\ t < T2200 THEN "Evening"
             ELSE IF t >= T2200 THEN "Late Evening"
             ELSE "Pre-Early AM/Other"

\* get_time_block, lines 230-272, on the value pd.to_timedelta gives: every
\* comparison with NaT is false, so a missing time falls to the else branch
GetTimeBlock(time_delta) ==
    IF time_delta.kind = "nan" THEN "Pre-Early AM/Other"
    ELSE LET t == Seconds(time_delta)
         IN  IF T0400 <= t /\ t < T0600 THEN "Early AM"
             ELSE IF T0600 <= t /\ t < T0900 THEN "AM Peak"
             ELSE IF T0900 <= t /\ t < T1500 THEN "Base"
             ELSE IF T1500 <= t /\ t < T1800 THEN "PM Peak"
             ELSE IF T1800 <= t /\ t < T2200 THEN "Evening"
             ELSE IF t >= T2200 THEN "Late Evening"
             ELSE "Pre-Early AM/Other"

\* the order groupby('time_block') leaves when the categorical sort is missing
PeriodOrderOfGroupBy ==
    <<"AM Peak", "Base", "Early AM", "Evening", "Late Evening", "PM Peak",
      "Pre-Early AM/Other">>

\* period_order, line 310
PeriodOrder ==
    <<"Pre-Early AM/Other", "Early AM", "AM Peak", "Base", "PM Peak", "Evening",
      "Late Evening">>

\* round(): num / den to the nearest integer, ties to even
RoundDiv(num, den) ==
    LET q == num \div den
        r == num % den
    IN  IF 2 * r < den THEN q
        ELSE IF 2 * r > den THEN q + 1
        ELSE IF q % 2 = 0 THEN q ELSE q + 1

\* line 307: round(n_trips / total_trips * 100, 2), in hundredths
Pct(n, total) == RoundDiv(n * 10000, total)

\* every row of the joined frame, the reduction to the first stops left out
AllStopRows(rows) == rows

\* lines 282-284
PeakFirstStops(rows) == FirstStops(rows)

\* lines 293-316: the blocks that occur, in the order of period_order
PeriodMetrics(first_stops) ==
    LET block(i) == GetTimeBlock(first_stops[i].departure_time)
        total_trips == Cardinality({first_stops[i].trip_id : i \in 1..Len(first_stops)})
        present == SelectSeq(PeriodOrder,
                             LAMBDA b : \E i \in 1..Len(first_stops) : block(i) = b)
    IN  [k \in 1..Len(present) |->
            LET rows == {i \in 1..Len(first_stops) : block(i) = present[k]}
                n_trips == Cardinality({first_stops[i].trip_id : i \in rows})
            IN  [time_block |-> present[k],
                 n_trips |-> n_trips,
                 n_routes |-> Cardinality({first_stops[i].route_id : i \in rows}),
                 pct_of_service |-> Pct(n_trips, total_trips)]]

\* calculate_peak_offpeak_metrics, lines 274-318
CalculatePeakOffpeakMetrics(gtfs, service_id) ==
    IF ~({"trips", "stop_times"} \subseteq gtfs.keys)
    THEN KeyError(FirstAbsent(gtfs, <<"trips", "stop_times">>))
    ELSE
    LET trips_stop_times ==
            FilterService(Merge(gtfs.trips, gtfs.stop_times, "trip_id"), service_id)
        first_stops == PeakFirstStops(trips_stop_times)
    IN  IF \E i \in 1..Len(first_stops) : first_stops[i].departure_time.kind = "bad"
        THEN Raised("ValueError")
        ELSE Ok(PeriodMetrics(first_stops))

(***************************************************************************)
(* The feeds explored for the peak/off-peak metrics: departures on both    *)
(* sides of every block boundary, past midnight, missing and unparseable.  *)
(***************************************************************************)
PeakTimes ==
    {Time(0, 0, 0), Time(3, 59, 59), Time(4, 0, 0), Time(5, 59, 59), Time(6, 0, 0),
     Time(8, 59, 59), Time(9, 0, 0), Time(14, 59, 59), Time(15, 0, 0),
     Time(17, 59, 59), Time(18, 0, 0), Time(21, 59, 59), Time(22, 0, 0),
     Time(24, 0, 0), Time(25, 10, 0), NaT, BadTime}

PeakChoices ==
    {Choice(p[1], p[2], t) : p \in {<<"R1", "S1">>, <<"R2", "S2">>}, t \in PeakTimes}

PeakRoutes == <<RouteRow("R1", "1", "Main"), RouteRow("R2", "2", "Oak")>>

InitPeak ==
    /\ \E choices \in SeqsUpTo(PeakChoices, MaxPeakTrips) :
           gtfs_data = TripFeed(PeakRoutes, choices)
    /\ call = Call("none", 0, NoneId, NoneId)
    /\ result = Ok(<<>>)
    /\ kept = NoneKept
    /\ threads = NoThreads
    /\ session = NoSession

\* the call with line 287 converting departure_time in the loaded stop_times
\* table instead of the copy of the first stops: the strings become timedeltas
CalculatePeakOffpeakMetricsCallInPlace ==
    \E service_id \in ServiceArgs :
        /\ call' = Call("calculate_peak_offpeak_metrics", 0, service_id, NoneId)
        /\ result' = CalculatePeakOffpeakMetrics(gtfs_data, service_id)
        /\ gtfs_data' =
               [gtfs_data EXCEPT !.stop_times =
                   [i \in 1..Len(@) |->
                       [@[i] EXCEPT !.departure_time =
                           IF @.kind = "hms" THEN [@ EXCEPT !.kind = "timedelta"] ELSE @]]]
        /\ UNCHANGED <<kept, threads, session>>

\* calculate_peak_offpeak_metrics(gtfs_data, service_id)
CalculatePeakOffpeakMetricsCall ==
    \E service_id \in ServiceArgs :
        /\ call' = Call("calculate_peak_offpeak_metrics", 0, service_id, NoneId)
        /\ result' = CalculatePeakOffpeakMetrics(gtfs_data, service_id)
        /\ UNCHANGED <<gtfs_data, kept, threads, session>>

NextPeak == CalculatePeakOffpeakMetricsCall

SpecPeak == InitPeak /\ [][NextPeak]_vars

PosIn(seq, x) == CHOOSE i \in 1..Len(seq) : seq[i] = x

PeakOk == call.op = "calculate_peak_offpeak_metrics" /\ result.status = "ok"

BlockNames ==
    {"Early AM", "AM Peak", "Base", "PM Peak", "Evening", "Late Evening",
     "Pre-Early AM/Other"}

\* C6: in peakOffPeakMetrics every first-stop departure falls in exactly one of
\* the seven blocks: the rows are distinct blocks among the seven and their
\* n_trips sum to the number of distinct trips (with stop_times) of the
\* filtered service.
C6_BucketPartition ==
    PeakOk =>
        /\ \A i \in 1..Len(result.value) : result.value[i].time_block \in BlockNames
        /\ \A i, j \in 1..Len(result.value) :
               result.value[i].time_block = result.value[j].time_block => i = j
        /\ SumSeq([i \in 1..Len(result.value) |-> result.value[i].n_trips]) =
               Cardinality(FilteredTrips(gtfs_data, call.service_id))

C6_Witness ==
    /\ PeakOk
    /\ Len(result.value) = 2
    /\ Cardinality(FilteredTrips(gtfs_data, call.service_id)) = 2

\* the half-open intervals of the contract, in seconds from the service-day start
InBlock(b, t) ==
    CASE b = "Early AM" -> 4 * 3600 <= t /\ t < 6 * 3600
      [] b = "AM Peak" -> 6 * 3600 <= t /\ t < 9 * 3600
      [] b = "Base" -> 9 * 3600 <= t /\ t < 15 * 3600
      [] b = "PM Peak" -> 15 * 3600 <= t /\ t < 18 * 3600
      [] b = "Evening" -> 18 * 3600 <= t /\ t < 22 * 3600
      [] b = "Late Evening" -> t >= 22 * 3600
      [] b = "Pre-Early AM/Other" -> t < 4 * 3600

TripsCounted(b) ==
    SumSeq([i \in 1..Len(result.value) |->
               IF result.value[i].time_block = b THEN result.value[i].n_trips ELSE 0])

AllFirstDeparturesParse ==
    \A t \in FilteredTrips(gtfs_data, call.service_id) :
        Parses(FirstDeparture(gtfs_data, t.trip_id))

\* C7: the block of an offset t is Early AM iff 04:00 <= t < 06:00, AM Peak iff
\* 06:00 <= t < 09:00, Base iff 09:00 <= t < 15:00, PM Peak iff 15:00 <= t <
\* 18:00, Evening iff 18:00 <= t < 22:00, Late Evening iff t >= 22:00 (24:00
\* and later included), Pre-Early AM/Other iff t < 04:00: each block counts
\* exactly the trips whose first-stop offset lies in its interval.
C7_HalfOpenBlocks ==
    (PeakOk /\ AllFirstDeparturesParse) =>
        \A b \in BlockNames :
            TripsCounted(b) =
                Cardinality({t \in FilteredTrips(gtfs_data, call.service_id) :
                                InBlock(b, Seconds(FirstDeparture(gtfs_data, t.trip_id)))})

C7_Witness ==
    /\ PeakOk
    /\ call.service_id = NoneId
    /\ \E t \in FilteredTrips(gtfs_data, NoneId) :
           FirstDeparture(gtfs_data, t.trip_id) = Time(4, 0, 0)
    /\ \E t \in FilteredTrips(gtfs_data, NoneId) :
           FirstDeparture(gtfs_data, t.trip_id) = Time(25, 10, 0)
    /\ TripsCounted("Early AM") = 1
    /\ TripsCounted("Late Evening") = 1

InOrderOf(sequence) ==
    \A i, j \in 1..Len(result.value) :
        i < j => PosIn(sequence, result.value[i].time_block)
                     < PosIn(sequence, result.value[j].time_block)

\* C8 as stated: the rows of peakOffPeakMetrics follow the sequence Early AM,
\* AM Peak, Base, PM Peak, Evening, Late Evening, Pre-Early AM/Other.
C8_SpecSequence ==
    PeakOk => InOrderOf(<<"Early AM", "AM Peak", "Base", "PM Peak", "Evening",
                          "Late Evening", "Pre-Early AM/Other">>)

\* C8 amended: the rows of peakOffPeakMetrics follow the fixed sequence
\* Pre-Early AM/Other, Early AM, AM Peak, Base, PM Peak, Evening, Late Evening,
\* whatever the trip counts are.
C8_ChronologicalSequence ==
    PeakOk => InOrderOf(<<"Pre-Early AM/Other", "Early AM", "AM Peak", "Base",
                          "PM Peak", "Evening", "Late Evening">>)

C8_Witness ==
    /\ PeakOk
    /\ Len(result.value) = 2
    /\ result.value[1].time_block = "Pre-Early AM/Other"
    /\ result.value[2].time_block = "AM Peak"

(***************************************************************************)
(* The feeds explored for the trips by hour: two trips and every short     *)
(* stop_times table over them, duplicate stop_sequences included.          *)
(***************************************************************************)
HourTrips ==
    <<TripRow("T1", "R1", "S1", 0, "SH1"), TripRow("T2", "R1", "S2", 0, "SH1")>>

HourStopRows ==
    {StopTimeRow(trip, seq, dep, dep, "A") :
        trip \in {"T1", "T2"}, seq \in {1, 2},
        dep \in {Time(7, 30, 0), Time(8, 0, 0), Time(25, 10, 0)}}

InitHour ==
    /\ \E stop_times \in SeqsUpTo(HourStopRows, MaxStopTimes) :
           gtfs_data = Feed(RequiredTables, FixtureRoutes, HourTrips, stop_times,
                            FixtureStops, <<>>, <<>>)
    /\ call = Call("none", 0, NoneId, NoneId)
    /\ result = Ok(<<>>)
    /\ kept = NoneKept
    /\ threads = NoThreads
    /\ session = NoSession

\* calculate_trips_by_hour(gtfs_data, service_id)
CalculateTripsByHourCall ==
    \E service_id \in ServiceArgs :
        /\ call' = Call("calculate_trips_by_hour", 0, service_id, NoneId)
        /\ result' = CalculateTripsByHour(gtfs_data, service_id)
        /\ UNCHANGED <<gtfs_data, kept, threads, session>>

NextHour == CalculateTripsByHourCall

SpecHour == InitHour /\ [][NextHour]_vars

\* the trips of the filtered set with two or more rows at their minimum
\* stop_sequence
DuplicateOrigin(gtfs, service_id) ==
    {t \in FilteredTrips(gtfs, service_id) :
        \E i, j \in 1..Len(gtfs.stop_times) :
            /\ i # j
            /\ gtfs.stop_times[i].trip_id = t.trip_id
            /\ gtfs.stop_times[j].trip_id = t.trip_id
            /\ gtfs.stop_times[i].stop_sequence = gtfs.stop_times[j].stop_sequence
            /\ \A k \in 1..Len(gtfs.stop_times) :
                   gtfs.stop_times[k].trip_id = t.trip_id =>
                       gtfs.stop_times[i].stop_sequence <= gtfs.stop_times[k].stop_sequence}

\* C9: in tripsByHour a trip with several stop_times rows at its minimum
\* stop_sequence has one first stop and is counted once: the trip counts sum to
\* the number of filtered trips, and the trip's hours other than that of one
\* of its minimum rows do not count it.
C9_StopDedup ==
    (/\ call.op = "calculate_trips_by_hour"
     /\ result.status = "ok"
     /\ DuplicateOrigin(gtfs_data, call.service_id) # {}) =>
        /\ SumSeq([i \in 1..Len(result.value) |-> result.value[i].trip_count]) =
               Cardinality(FilteredTrips(gtfs_data, call.service_id))
        /\ \A i \in 1..Len(result.value) :
               result.value[i].trip_count =
                   Cardinality({t \in FilteredTrips(gtfs_data, call.service_id) :
                       FirstDeparture(gtfs_data, t.trip_id).h = result.value[i].hour})

C9_Witness ==
    /\ call.op = "calculate_trips_by_hour"
    /\ result.status = "ok"
    /\ \E t \in DuplicateOrigin(gtfs_data, call.service_id) :
           \E i, j \in 1..Len(gtfs_data.stop_times) :
               /\ gtfs_data.stop_times[i].trip_id = t.trip_id
               /\ gtfs_data.stop_times[j].trip_id = t.trip_id
               /\ gtfs_data.stop_times[i].stop_sequence = 1
               /\ gtfs_data.stop_times[j].stop_sequence = 1
               /\ gtfs_data.stop_times[i].departure_time.h = 8
               /\ gtfs_data.stop_times[j].departure_time.h = 25
    /\ Len(result.value) = 1
    /\ result.value[1].trip_count = 1

(***************************************************************************)
(* get_route_details                                                       *)
(* Its time_to_minutes returns None for a missing or unparseable time.     *)
(***************************************************************************)
\* time_to_minutes, lines 338-346
ToMinutesOrNone(t) == IF Parses(t) THEN Num(Minutes60(t)) ELSE NaN

\* sort_values('departure_mins'): ascending, NaN last, stable
SortByDepartureMins(rows) ==
    SortBy(rows, [p \in Pairs(rows) |->
                     LET a == rows[p[1]].departure_mins
                         b == rows[p[2]].departure_mins
                     IN  ~a.nan /\ (b.nan \/ a.v < b.v)])

\* Series.diff(): the difference to the previous row, NaN for the first row
\* and wherever one of the two values is NaN
Diff(rows) ==
    [i \in 1..Len(rows) |->
        IF i = 1 \/ rows[i].departure_mins.nan \/ rows[i - 1].departure_mins.nan
        THEN NaN
        ELSE Num(rows[i].departure_mins.v - rows[i - 1].departure_mins.v)]

\* first_stops['direction_id'].unique(): the values in order of appearance
UniqueDirections(rows) ==
    LET firsts == SelectSeq([i \in 1..Len(rows) |-> i],
                            LAMBDA i : \A j \in 1..(i - 1) :
                                rows[j].direction_id # rows[i].direction_id)
    IN  [k \in 1..Len(firsts) |-> rows[firsts[k]].direction_id]

\* lines 403-404: dropna, then the headways >= 0
ValidHeadways(headway_min) ==
    LET present == SelectSeq(headway_min, LAMBDA x : ~x.nan)
        valid == SelectSeq(present, LAMBDA x : x.v >= 0)
    IN  [i \in 1..Len(valid) |-> valid[i].v]

\* the headways of every direction in the order of the frame, neither sorted
\* by departure nor filtered
DirectionHeadwaysInFrameOrder(with_mins) ==
    LET directions == UniqueDirections(with_mins)
    IN  Flatten([d \in 1..Len(directions) |->
            LET direction_stops ==
                    SelectSeq(with_mins, LAMBDA r : r.direction_id = directions[d])
                present == SelectSeq(Diff(direction_stops), LAMBDA x : ~x.nan)
            IN  [i \in 1..Len(present) |-> present[i].v]])

\* the headways of line 393 pooled instead: the differences of the whole sorted
\* frame, across the directions
DirectionHeadwaysAcross(with_mins) ==
    ValidHeadways(Diff(SortByDepartureMins(with_mins)))

\* lines 390-407: direction_headways, from the first stops with departure_mins
DirectionHeadways(with_mins) ==
    LET first_stops == SortByDepartureMins(with_mins)
        directions == UniqueDirections(first_stops)
    IN  Flatten([d \in 1..Len(directions) |->
            LET direction_stops ==
                    SortByDepartureMins(
                        SelectSeq(first_stops, LAMBDA r : r.direction_id = directions[d]))
            IN  ValidHeadways(Diff(direction_stops))])

\* the stop list with the stop_sequence of the stop's first row instead of
\* its minimum ('first' in place of 'min' at line 377)
StopsListByFirstSequence(trips_stops) ==
    LET ids == SortedIds({trips_stops[i].stop_id : i \in 1..Len(trips_stops)})
        grouped ==
            [k \in 1..Len(ids) |->
                LET rows == SelectSeq(trips_stops, LAMBDA r : r.stop_id = ids[k])
                IN  [stop_id |-> ids[k],
                     stop_name |-> rows[1].stop_name,
                     stop_sequence |-> rows[1].stop_sequence]]
    IN  SortBy(grouped, [p \in Pairs(grouped) |->
                   grouped[p[1]].stop_sequence < grouped[p[2]].stop_sequence])

\* lines 370-381: per stop_id the first name and the minimum stop_sequence,
\* sorted by that minimum
StopsList(trips_stops) ==
    LET ids == SortedIds({trips_stops[i].stop_id : i \in 1..Len(trips_stops)})
        grouped ==
            [k \in 1..Len(ids) |->
                LET rows == SelectSeq(trips_stops, LAMBDA r : r.stop_id = ids[k])
                IN  [stop_id |-> ids[k],
                     stop_name |-> rows[1].stop_name,
                     stop_sequence |->
                         CHOOSE m \in {rows[i].stop_sequence : i \in 1..Len(rows)} :
                             \A i \in 1..Len(rows) : m <= rows[i].stop_sequence]]
    IN  SortBy(grouped, [p \in Pairs(grouped) |->
                   grouped[p[1]].stop_sequence < grouped[p[2]].stop_sequence])

\* the characters of a time string, a digit as its value and ':' as 10 (':'
\* follows '9' in the character order)
TimeChars(t) ==
    IF t.kind = "h:mm:ss"
    THEN <<t.h, 10, t.m \div 10, t.m % 10, 10, t.s \div 10, t.s % 10>>
    ELSE <<t.h \div 10, t.h % 10, 10, t.m \div 10, t.m % 10, 10, t.s \div 10, t.s % 10>>

\* the order of Python's str: by the first character that differs, a prefix
\* before its extensions
StrLeq(a, b) ==
    \/ \E i \in 1..Len(a) :
           /\ i <= Len(b)
           /\ \A j \in 1..(i - 1) : a[j] = b[j]
           /\ a[i] < b[i]
    \/ Len(a) <= Len(b) /\ \A j \in 1..Len(a) : a[j] = b[j]

\* the order of the departure_time strings; a string that is no time is taken
\* to sort after the times
TimeStringLeq(t, u) ==
    \/ ~Parses(u)
    \/ Parses(t) /\ Parses(u) /\ StrLeq(TimeChars(t), TimeChars(u))

\* lines 416-417: min()/max() of the departure_time strings
DepartureExtreme(times, least) ==
    CHOOSE t \in times :
        \A u \in times : IF least THEN TimeStringLeq(t, u) ELSE TimeStringLeq(u, t)

\* lines 430-442: the polyline of the most common shape_id (mode()[0]: the
\* least of the most frequent values)
ShapeCoords(gtfs, filtered_trips) ==
    IF ~Has(gtfs, "shapes") \/ gtfs.shapes = <<>> \/ filtered_trips = <<>> THEN <<>>
    ELSE
    LET count(x) == Cardinality({i \in 1..Len(filtered_trips) :
                                    filtered_trips[i].shape_id = x})
        ids == {filtered_trips[i].shape_id : i \in 1..Len(filtered_trips)}
        modes == SortedIds({x \in ids : \A y \in ids : count(y) <= count(x)})
        shape_data == SelectSeq(gtfs.shapes, LAMBDA r : r.shape_id = modes[1])
        sorted == SortBy(shape_data, [p \in Pairs(shape_data) |->
                      shape_data[p[1]].shape_pt_sequence
                          < shape_data[p[2]].shape_pt_sequence])
    IN  [i \in 1..Len(sorted) |-> <<sorted[i].shape_pt_lat, sorted[i].shape_pt_lon>>]

\* the rows of the route, and the first row of routes when there are none
RouteInfoOrFirstRow(routes, route_id) ==
    LET found == SelectSeq(routes, LAMBDA r : r.route_id = route_id)
    IN  IF found = <<>> /\ routes # <<>> THEN <<routes[1]>> ELSE found

\* line 350: routes[routes['route_id'] == route_id]
RouteInfo(routes, route_id) == SelectSeq(routes, LAMBDA r : r.route_id = route_id)

\* get_route_details, lines 348-461.  direction_headways is the local list
\* the average is taken of; avg_headway_min is in hundredths of a minute,
\* service_span_hours in hundredths of an hour.
GetRouteDetails(gtfs, route_id, service_id) ==
    IF ~Has(gtfs, "routes") THEN KeyError("routes")
    ELSE
    LET route_info == RouteInfo(gtfs.routes, route_id)
    IN  IF route_info = <<>> THEN Raised("ValueError")
        ELSE IF ~({"trips", "stop_times", "stops"} \subseteq gtfs.keys)
        THEN KeyError(FirstAbsent(gtfs, <<"trips", "stop_times", "stops">>))
        ELSE
        LET row == route_info[1]
            filtered_trips ==
                FilterService(SelectSeq(gtfs.trips, LAMBDA r : r.route_id = route_id),
                              service_id)
            trips_stop_times == Merge(filtered_trips, gtfs.stop_times, "trip_id")
            trips_stops == Merge(trips_stop_times, gtfs.stops, "stop_id")
            in_trip_order == FirstStops(trips_stops)
            with_mins ==
                [i \in 1..Len(in_trip_order) |->
                    in_trip_order[i] @@
                    [departure_mins |-> ToMinutesOrNone(in_trip_order[i].departure_time)]]
            first_stops == SortByDepartureMins(with_mins)
            direction_headways == DirectionHeadways(with_mins)
            times == {first_stops[i].departure_time : i \in 1..Len(first_stops)}
            strings == {t \in times : t.kind # "nan"}
        IN  \* line 393: an object column of None only cannot be subtracted
            IF Len(with_mins) >= 2 /\ \A i \in 1..Len(with_mins) : with_mins[i].departure_mins.nan
            THEN Raised("TypeError")
            \* lines 416-417: min() of strings mixed with NaN compares str and float
            ELSE IF strings # {} /\ strings # times THEN Raised("TypeError")
            ELSE
            LET first_trip == IF strings = {} THEN NaT ELSE DepartureExtreme(strings, TRUE)
                last_trip == IF strings = {} THEN NaT ELSE DepartureExtreme(strings, FALSE)
                first_mins == ToMinutesOrNone(first_trip)
                last_mins == ToMinutesOrNone(last_trip)
            IN  Ok([route_id |-> route_id,
                    short_name |-> row.route_short_name,
                    long_name |-> row.route_long_name,
                    num_stops |-> Cardinality({trips_stops[i].stop_id :
                                                  i \in 1..Len(trips_stops)}),
                    num_trips |-> Cardinality({filtered_trips[i].trip_id :
                                                  i \in 1..Len(filtered_trips)}),
                    direction_headways |-> direction_headways,
                    avg_headway_min |->
                        IF direction_headways = <<>> THEN NaN
                        ELSE Num(RoundDiv(SumSeq(direction_headways) * 100,
                                          60 * Len(direction_headways))),
                    first_trip |-> first_trip,
                    last_trip |-> last_trip,
                    service_span_hours |->
                        IF first_mins.nan \/ last_mins.nan THEN NaN
                        ELSE Num(RoundDiv((last_mins.v - first_mins.v) * 100, 3600)),
                    stops |-> StopsList(trips_stops),
                    departure_times |->
                        [i \in 1..Len(first_stops) |-> first_stops[i].departure_time],
                    shape_coords |-> ShapeCoords(gtfs, filtered_trips)])

(***************************************************************************)
(* The feeds explored for the route details: trips of route R1 in two      *)
(* directions, in any order of departure.                                  *)
(***************************************************************************)
RouteChoices ==
    {[route |-> "R1", service |-> p[2], dep |-> t, direction |-> p[1], shape |-> "SH1"] :
        p \in {<<0, "S1">>, <<1, "S1">>, <<0, "S2">>},
        t \in {Time(8, 0, 0), Time(8, 10, 0), Time(8, 30, 0)}}

InitRoute ==
    /\ \E choices \in SeqsUpTo(RouteChoices, MaxTrips) :
           gtfs_data = TripFeed(PeakRoutes, choices)
    /\ call = Call("none", 0, NoneId, NoneId)
    /\ result = Ok(<<>>)
    /\ kept = NoneKept
    /\ threads = NoThreads
    /\ session = NoSession

\* get_route_details(gtfs_data, route_id, service_id); R9 is no route of the feed
GetRouteDetailsCall ==
    \E route_id \in {"R1", "R9"}, service_id \in ServiceArgs :
        /\ call' = Call("get_route_details", 0, service_id, route_id)
        /\ result' = GetRouteDetails(gtfs_data, route_id, service_id)
        /\ UNCHANGED <<gtfs_data, kept, threads, session>>

NextRoute == GetRouteDetailsCall

SpecRoute == InitRoute /\ [][NextRoute]_vars

RouteOk == call.op = "get_route_details" /\ result.status = "ok"

\* C10: the pooled average headway of routeDetails is taken over headways
\* >= 0 only: no negative difference is in the pool, and the average is null
\* exactly when the pool is empty and is never negative.
C10_PoolNonNegative ==
    RouteOk =>
        /\ \A k \in 1..Len(result.value.direction_headways) :
               result.value.direction_headways[k] >= 0
        /\ result.value.avg_headway_min.nan <=> result.value.direction_headways = <<>>
        /\ ~result.value.avg_headway_min.nan => result.value.avg_headway_min.v >= 0

\* two trips of one direction listed with the later departure first
C10_Witness ==
    /\ RouteOk
    /\ call.service_id = NoneId
    /\ Len(gtfs_data.trips) >= 2
    /\ gtfs_data.trips[1].direction_id = gtfs_data.trips[2].direction_id
    /\ Seconds(FirstDeparture(gtfs_data, "T1")) > Seconds(FirstDeparture(gtfs_data, "T2"))
    /\ Len(result.value.direction_headways) >= 1
    /\ ~result.value.avg_headway_min.nan

(***************************************************************************)
(* The feeds explored for the headways by direction: trips of route R1 and *)
(* service S1 whose directions alternate in the trips table (T1, T3, T5 in *)
(* direction 1, T2, T4 in direction 0), with any first-stop departures.    *)
(***************************************************************************)
MaxDirTrips == 5

DirectionTimes == {Time(8, 0, 0), Time(8, 10, 0), Time(8, 30, 0)}

DirectionChoices(times) ==
    [i \in 1..Len(times) |->
        [route |-> "R1", service |-> "S1", dep |-> times[i], direction |-> i % 2,
         shape |-> "SH1"]]

InitDirections ==
    /\ \E times \in SeqsUpTo(DirectionTimes, MaxDirTrips) :
           gtfs_data = TripFeed(PeakRoutes, DirectionChoices(times))
    /\ call = Call("none", 0, NoneId, NoneId)
    /\ result = Ok(<<>>)
    /\ kept = NoneKept
    /\ threads = NoThreads
    /\ session = NoSession

SpecDirections == InitDirections /\ [][NextRoute]_vars

\* the trips of the called route and service that run in direction d
DirectionTrips(d) ==
    {t \in RouteTrips(gtfs_data, call.service_id, call.route_id) : t.direction_id = d}

DirectionDeps(d) ==
    {Minutes60(FirstDeparture(gtfs_data, t.trip_id)) : t \in DirectionTrips(d)}

\* the number of successive differences of direction d, and their sum
DirectionCount(d) ==
    IF DirectionTrips(d) = {} THEN 0 ELSE Cardinality(DirectionTrips(d)) - 1

DirectionSum(d) ==
    IF DirectionTrips(d) = {} THEN 0 ELSE MaxOf(DirectionDeps(d)) - MinOf(DirectionDeps(d))

\* h is the difference of two departures of one direction with no departure
\* of that direction strictly between them
SuccessiveInDirection(h) ==
    \E d \in {0, 1} :
        \E t1, t2 \in DirectionTrips(d) :
            LET a == Minutes60(FirstDeparture(gtfs_data, t1.trip_id))
                b == Minutes60(FirstDeparture(gtfs_data, t2.trip_id))
            IN  /\ t1 # t2
                /\ b - a = h
                /\ \A x \in DirectionDeps(d) : ~(a < x /\ x < b)

\* C11: routeDetails takes the headways within each direction_id (successive
\* differences of that direction's sorted first-stop departures, none across
\* directions); avg_headway_min is the mean of all of them pooled (their sum
\* over their number, rounded to hundredths), and it is null exactly when no
\* direction has two trips.
C11_PooledByDirection ==
    RouteOk =>
        LET pool == result.value.direction_headways
            count == DirectionCount(0) + DirectionCount(1)
            total == DirectionSum(0) + DirectionSum(1)
            avg == result.value.avg_headway_min
        IN  /\ Len(pool) = count
            /\ SumSeq(pool) = total
            /\ \A k \in 1..Len(pool) : SuccessiveInDirection(pool[k])
            /\ avg.nan <=> count = 0
            /\ count > 0 => avg.v = RoundDiv(total * 100, 60 * count)

\* direction 1 departs 08:00, 08:10, 08:30 (headways 10 and 20, mean 15) and
\* direction 0 departs 08:00, 08:30 (headway 30): the pooled mean is 20.00,
\* the mean of the two means would be 22.50
C11_Witness ==
    /\ RouteOk
    /\ call.service_id = "S1"
    /\ Cardinality(DirectionTrips(1)) = 3
    /\ Cardinality(DirectionTrips(0)) = 2
    /\ DirectionSum(1) = 30 * 60
    /\ DirectionCount(1) = 2
    /\ DirectionSum(0) = 30 * 60
    /\ Len(result.value.direction_headways) = 3
    /\ Elems(result.value.direction_headways) = {10 * 60, 20 * 60, 30 * 60}
    /\ result.value.avg_headway_min = Num(2000)

(***************************************************************************)
(* calculate_system_metrics                                                *)
(***************************************************************************)
\* the tables taken with gtfs_data.get(table, []): an absent table counts as
\* an empty one
CalculateSystemMetricsLenient(gtfs) ==
    Ok([total_routes |-> Len(gtfs.routes),
        total_stops |-> Len(gtfs.stops),
        total_trips |-> Len(gtfs.trips),
        total_shapes |->
            IF Has(gtfs, "shapes")
            THEN Num(Cardinality({gtfs.shapes[i].shape_id : i \in 1..Len(gtfs.shapes)}))
            ELSE NaN])

\* lines 18-27; total_shapes is a key of the dict only when shapes is loaded
\* (NaN here when it is not)
CalculateSystemMetrics(gtfs) ==
    IF ~({"routes", "stops", "trips"} \subseteq gtfs.keys)
    THEN KeyError(FirstAbsent(gtfs, <<"routes", "stops", "trips">>))
    ELSE Ok([total_routes |-> Len(gtfs.routes),
             total_stops |-> Len(gtfs.stops),
             total_trips |-> Len(gtfs.trips),
             total_shapes |->
                 IF Has(gtfs, "shapes")
                 THEN Num(Cardinality({gtfs.shapes[i].shape_id : i \in 1..Len(gtfs.shapes)}))
                 ELSE NaN])

(***************************************************************************)
(* calculate_service_hours                                                 *)
(* Seconds stay integers: a duration is kept in seconds (1/60 minute), the *)
(* total in seconds (1/3600 hour), the mean as [nan, sum, n].              *)
(***************************************************************************)
\* time_to_seconds, lines 92-100: None for a missing or unparseable time
ToSecondsOrNone(t) == IF Parses(t) THEN Num(Seconds(t)) ELSE NaN

\* groupby('trip_id').agg(min) / agg(max) of one column, for one trip: NaN is
\* skipped, and the result is NaN when the trip has no value at all
GroupExtreme(values, least) ==
    LET present == {values[i].v : i \in {j \in 1..Len(values) : ~values[j].nan}}
    IN  IF present = {} THEN NaN
        ELSE Num(CHOOSE x \in present :
                     \A y \in present : IF least THEN x <= y ELSE y <= x)

\* line 131, Series.sum(): NaN is skipped, and the sum of no value is 0
Total(durations) ==
    Num(SumSeq([i \in 1..Len(durations) |->
                   IF durations[i].nan THEN 0 ELSE durations[i].v]))

\* a duration that takes a missing end of the trip as 0 seconds
TripDurationZeroFilled(start_time, end_time) ==
    Num((IF end_time.nan THEN 0 ELSE end_time.v)
            - (IF start_time.nan THEN 0 ELSE start_time.v))

\* lines 125-127: end_time - start_time, NaN when one of them is
TripDuration(start_time, end_time) ==
    IF start_time.nan \/ end_time.nan THEN NaN ELSE Num(end_time.v - start_time.v)

\* calculate_service_hours, lines 103-136
CalculateServiceHours(gtfs, service_id) ==
    IF ~({"trips", "stop_times"} \subseteq gtfs.keys)
    THEN KeyError(FirstAbsent(gtfs, <<"trips", "stop_times">>))
    ELSE
    LET trips_stops ==
            FilterService(Merge(gtfs.trips, gtfs.stop_times, "trip_id"), service_id)
        ids == SortedIds({trips_stops[i].trip_id : i \in 1..Len(trips_stops)})
        trip_duration ==
            [k \in 1..Len(ids) |->
                LET rows == SelectSeq(trips_stops, LAMBDA r : r.trip_id = ids[k])
                    dep_sec == [i \in 1..Len(rows) |-> ToSecondsOrNone(rows[i].departure_time)]
                    arr_sec == [i \in 1..Len(rows) |-> ToSecondsOrNone(rows[i].arrival_time)]
                IN  TripDuration(GroupExtreme(dep_sec, TRUE), GroupExtreme(arr_sec, FALSE))]
    IN  Ok([total_revenue_hours |-> Total(trip_duration),
            avg_trip_duration_min |-> Mean(trip_duration),
            total_trips |-> Len(ids)])

(***************************************************************************)
(* calculate_stop_metrics                                                  *)
(***************************************************************************)
\* the groups with the numbers of joined rows instead of the numbers of
\* distinct values (count instead of nunique)
StopGroupsCountingRows(trips_stop_times) ==
    LET ids == SortedIds({trips_stop_times[i].stop_id : i \in 1..Len(trips_stop_times)})
    IN  [k \in 1..Len(ids) |->
            LET rows == {i \in 1..Len(trips_stop_times) :
                            trips_stop_times[i].stop_id = ids[k]}
            IN  [stop_id |-> ids[k],
                 n_trips |-> Cardinality(rows),
                 n_routes |-> Cardinality({i \in rows : trips_stop_times[i].route_id # NA})]]

\* lines 158-166: per stop_id the numbers of distinct trips and routes, the
\* groups in key order; nunique does not count a missing value
StopGroups(trips_stop_times) ==
    LET ids == SortedIds({trips_stop_times[i].stop_id : i \in 1..Len(trips_stop_times)})
    IN  [k \in 1..Len(ids) |->
            LET rows == {i \in 1..Len(trips_stop_times) :
                            trips_stop_times[i].stop_id = ids[k]}
            IN  [stop_id |-> ids[k],
                 n_trips |-> Cardinality({trips_stop_times[i].trip_id : i \in rows}),
                 n_routes |-> Cardinality({trips_stop_times[i].route_id : i \in rows}
                                              \ {NA})]]

\* the function without its service filter (lines 154-155 left out)
CalculateStopMetricsUnfiltered(gtfs, service_id) ==
    IF ~({"trips", "stop_times", "stops"} \subseteq gtfs.keys)
    THEN KeyError(FirstAbsent(gtfs, <<"trips", "stop_times", "stops">>))
    ELSE
    LET trips_stop_times == Merge(gtfs.trips, gtfs.stop_times, "trip_id")
        stop_metrics == Merge(StopGroups(trips_stop_times), gtfs.stops, "stop_id")
    IN  Ok(SortBy(stop_metrics,
                  [p \in Pairs(stop_metrics) |->
                      stop_metrics[p[1]].n_trips > stop_metrics[p[2]].n_trips]))

\* calculate_stop_metrics, lines 151-178: the groups joined with stops, the
\* busiest stop first
CalculateStopMetrics(gtfs, service_id) ==
    IF ~({"trips", "stop_times", "stops"} \subseteq gtfs.keys)
    THEN KeyError(FirstAbsent(gtfs, <<"trips", "stop_times", "stops">>))
    ELSE
    LET trips_stop_times ==
            FilterService(Merge(gtfs.trips, gtfs.stop_times, "trip_id"), service_id)
        stop_metrics == Merge(StopGroups(trips_stop_times), gtfs.stops, "stop_id")
    IN  Ok(SortBy(stop_metrics,
                  [p \in Pairs(stop_metrics) |->
                      stop_metrics[p[1]].n_trips > stop_metrics[p[2]].n_trips]))

(***************************************************************************)
(* The engine as the dashboard drives it: any of its functions, one call   *)
(* after the other, on the loaded tables.                                  *)
(***************************************************************************)
\* calculate_system_metrics(gtfs_data)
CalculateSystemMetricsCall ==
    /\ call' = Call("calculate_system_metrics", 0, NoneId, NoneId)
    /\ result' = CalculateSystemMetrics(gtfs_data)
    /\ UNCHANGED <<gtfs_data, kept, threads, session>>

\* calculate_service_hours(gtfs_data, service_id)
CalculateServiceHoursCall ==
    \E service_id \in ServiceArgs :
        /\ call' = Call("calculate_service_hours", 0, service_id, NoneId)
        /\ result' = CalculateServiceHours(gtfs_data, service_id)
        /\ UNCHANGED <<gtfs_data, kept, threads, session>>

\* calculate_stop_metrics(gtfs_data, service_id)
CalculateStopMetricsCall ==
    \E service_id \in ServiceArgs :
        /\ call' = Call("calculate_stop_metrics", 0, service_id, NoneId)
        /\ result' = CalculateStopMetrics(gtfs_data, service_id)
        /\ UNCHANGED <<gtfs_data, kept, threads, session>>

NextEngine ==
    \/ GetActiveServiceCall
    \/ CalculateSystemMetricsCall
    \/ CalculateRouteFrequenciesCall
    \/ CalculateServiceHoursCall
    \/ CalculateStopMetricsCall
    \/ CalculateTripsByHourCall
    \/ CalculatePeakOffpeakMetricsCall
    \/ GetRouteDetailsCall

(***************************************************************************)
(* The feeds explored for absent tables: a few trips, and any of routes,   *)
(* trips, stop_times and stops missing from the dict.                      *)
(***************************************************************************)
MaxTableTrips == 2

TableChoices ==
    {Choice("R1", "S1", Time(8, 0, 0)), Choice("R1", "S1", Time(8, 30, 0)),
     Choice("R2", "S2", Time(8, 10, 0))}

\* the dict without the tables whose files are not in the feed
Without(gtfs, absent) ==
    [gtfs EXCEPT !.keys = @ \ absent,
                 !.routes = IF "routes" \in absent THEN <<>> ELSE @,
                 !.trips = IF "trips" \in absent THEN <<>> ELSE @,
                 !.stop_times = IF "stop_times" \in absent THEN <<>> ELSE @,
                 !.stops = IF "stops" \in absent THEN <<>> ELSE @]

InitTables ==
    /\ \E absent \in SUBSET {"routes", "trips", "stop_times", "stops"},
          choices \in SeqsUpTo(TableChoices, MaxTableTrips) :
           gtfs_data = Without(TripFeed(PeakRoutes, choices), absent)
    /\ call = Call("none", 0, NoneId, NoneId)
    /\ result = Ok(<<>>)
    /\ kept = NoneKept
    /\ threads = NoThreads
    /\ session = NoSession

SpecTables == InitTables /\ [][NextEngine]_vars

\* C12: routeDetails fails with the not-found error (ValueError "Route ...
\* does not exist") and returns no bundle whenever route_id has no row in
\* routes, whatever the service_id and whatever else the feed holds.
C12_UnknownRouteFails ==
    (/\ call.op = "get_route_details"
     /\ Has(gtfs_data, "routes")
     /\ call.route_id \notin RouteIdsOf(gtfs_data)) =>
        /\ result.status = "error"
        /\ result.error = "ValueError"
        /\ result.value = <<>>

C12_Witness ==
    /\ call.op = "get_route_details"
    /\ call.route_id = "R9"
    /\ call.service_id = "S1"
    /\ Has(gtfs_data, "routes")
    /\ gtfs_data.routes # <<>>
    /\ Len(gtfs_data.trips) = 2
    /\ result.status = "error"
    /\ result.error = "ValueError"

\* the tables each function of the engine needs
Needs(op) ==
    CASE op = "calculate_system_metrics" -> {"routes", "stops", "trips"}
      [] op = "calculate_route_frequencies" -> {"routes", "trips", "stop_times"}
      [] op = "calculate_service_hours" -> {"trips", "stop_times"}
      [] op = "calculate_stop_metrics" -> {"trips", "stop_times", "stops"}
      [] op = "calculate_trips_by_hour" -> {"trips", "stop_times"}
      [] op = "calculate_peak_offpeak_metrics" -> {"trips", "stop_times"}
      [] op = "get_route_details" -> {"routes", "trips", "stop_times", "stops"}
      [] OTHER -> {}

\* the error is the data error that names the table
NamesTable(error, table) ==
    \/ table = "routes" /\ error = "KeyError: 'routes'"
    \/ table = "trips" /\ error = "KeyError: 'trips'"
    \/ table = "stop_times" /\ error = "KeyError: 'stop_times'"
    \/ table = "stops" /\ error = "KeyError: 'stops'"

DataErrorOnAbsent ==
    /\ result.status = "error"
    /\ \E t \in Needs(call.op) \ gtfs_data.keys : NamesTable(result.error, t)

\* C13 as stated: every engine function, called with one of the tables it
\* needs absent, fails with the data error that names an absent table.
C13_DataErrorAlways ==
    ~(Needs(call.op) \subseteq gtfs_data.keys) => DataErrorOnAbsent

\* C13 amended: every engine function, called with one of the tables it needs
\* absent, fails and returns no result: with the data error that names an
\* absent table, except that routeDetails, given routes and a route_id that
\* is not in it, fails with the not-found error before it reads the others.
C13_DataErrorUnlessUnknownRoute ==
    ~(Needs(call.op) \subseteq gtfs_data.keys) =>
        IF /\ call.op = "get_route_details"
           /\ Has(gtfs_data, "routes")
           /\ call.route_id \notin RouteIdsOf(gtfs_data)
        THEN result.status = "error" /\ result.error = "ValueError"
        ELSE DataErrorOnAbsent

\* the stop metrics with stops absent: the join of lines 151-166 is done and
\* the call still fails, naming stops
C13_Witness ==
    /\ call.op = "calculate_stop_metrics"
    /\ gtfs_data.keys = RequiredTables \ {"stops"}
    /\ Len(gtfs_data.stop_times) >= 2
    /\ result.status = "error"
    /\ NamesTable(result.error, "stops")

(***************************************************************************)
(* The feeds explored for the time conversions: trips of route R1, each    *)
(* with a first stop (no arrival, departure x) and a second stop (arrival  *)
(* and departure y), where x and y may be missing or unparseable.  The     *)
(* trips alternate between the services S1 and S2.                         *)
(***************************************************************************)
MaxTimeTrips == 2

FirstStopTimes == {Time(8, 0, 0), Time(8, 40, 0), NaT, BadTime}

SecondStopTimes == {Time(8, 10, 0), Time(9, 30, 0), BadTime}

TimedTrips(choices) ==
    [i \in 1..Len(choices) |->
        TripRow(TripIds[i], "R1", IF i % 2 = 1 THEN "S1" ELSE "S2", 0, "SH1")]

TimedStopTimes(choices) ==
    Flatten([i \in 1..Len(choices) |->
        <<StopTimeRow(TripIds[i], 1, NaT, choices[i][1], "A"),
          StopTimeRow(TripIds[i], 2, choices[i][2], choices[i][2], "B")>>])

InitTimes ==
    /\ \E choices \in SeqsUpTo(FirstStopTimes \X SecondStopTimes, MaxTimeTrips) :
           gtfs_data = Feed(RequiredTables, PeakRoutes, TimedTrips(choices),
                            TimedStopTimes(choices), FixtureStops, <<>>, <<>>)
    /\ call = Call("none", 0, NoneId, NoneId)
    /\ result = Ok(<<>>)
    /\ kept = NoneKept
    /\ threads = NoThreads
    /\ session = NoSession

\* the functions that convert times
NextTimes ==
    \/ CalculateRouteFrequenciesCall
    \/ CalculateServiceHoursCall
    \/ CalculateTripsByHourCall
    \/ CalculatePeakOffpeakMetricsCall
    \/ GetRouteDetailsCall

SpecTimes == InitTimes /\ [][NextTimes]_vars

TimeOps ==
    {"calculate_route_frequencies", "calculate_service_hours", "calculate_trips_by_hour",
     "calculate_peak_offpeak_metrics", "get_route_details"}

\* C14: a missing or unparseable time string makes no time-converting metric
\* fail: routeFrequencies, serviceHours, tripsByHour, peakOffPeakMetrics and
\* routeDetails (of a route that exists) return a result whatever the time
\* strings of the feed are.
C14_NoFailureOnBadTime ==
    (call.op \in TimeOps /\ call.route_id # "R9") => result.status = "ok"

\* the stop_times rows of a trip
RowsOfTrip(trip_id) == {r \in Elems(gtfs_data.stop_times) : r.trip_id = trip_id}

\* the trips of the filtered set (with stop_times), in the order of TripIds
ServiceTrips ==
    SelectSeq(TripIds,
              LAMBDA id : \E t \in FilteredTrips(gtfs_data, call.service_id) :
                              t.trip_id = id)

\* a trip's duration is defined when it has a parseable departure and a
\* parseable arrival
HasDuration(trip_id) ==
    /\ \E r \in RowsOfTrip(trip_id) : Parses(r.departure_time)
    /\ \E r \in RowsOfTrip(trip_id) : Parses(r.arrival_time)

\* maximum arrival seconds - minimum departure seconds over the trip's rows
DurationSeconds(trip_id) ==
    MaxOf({Seconds(r.arrival_time) : r \in {x \in RowsOfTrip(trip_id) : Parses(x.arrival_time)}})
        - MinOf({Seconds(r.departure_time) :
                    r \in {x \in RowsOfTrip(trip_id) : Parses(x.departure_time)}})

DefinedTrips == SelectSeq(ServiceTrips, HasDuration)

DefinedSeconds ==
    SumSeq([i \in 1..Len(DefinedTrips) |-> DurationSeconds(DefinedTrips[i])])

HoursOk == call.op = "calculate_service_hours" /\ result.status = "ok"

\* C15: when no trip of the filtered set has a defined duration (no trips, or
\* all times unparseable), serviceHours returns null for total_revenue_hours
\* and for avg_trip_duration_min, not 0.
C15_NullTotals ==
    (HoursOk /\ DefinedTrips = <<>>) =>
        /\ result.value.total_revenue_hours.nan
        /\ result.value.avg_trip_duration_min.nan

\* C16: serviceHours takes each trip's duration as maximum arrival - minimum
\* departure over its stop_times; the mean is the sum of the defined durations
\* over the number of trips that have one (null when none has), and, when
\* some trip has one, the total is that sum: a trip without a parseable time
\* is neither in the sum nor in the denominator.
C16_DurationsOfDefinedTrips ==
    HoursOk =>
        LET avg == result.value.avg_trip_duration_min
        IN  /\ avg.nan <=> DefinedTrips = <<>>
            /\ DefinedTrips # <<>> =>
                   /\ avg.n = Len(DefinedTrips)
                   /\ avg.sum = DefinedSeconds
                   /\ result.value.total_revenue_hours = Num(DefinedSeconds)

\* T1 departs 08:00 and arrives 09:30 (90 minutes), T2 has no parseable time
C16_Witness ==
    /\ HoursOk
    /\ call.service_id = NoneId
    /\ ServiceTrips = <<"T1", "T2">>
    /\ DefinedTrips = <<"T1">>
    /\ \A r \in RowsOfTrip("T2") : r.departure_time = BadTime
    /\ DurationSeconds("T1") = 90 * 60
    /\ result.value.avg_trip_duration_min = [nan |-> FALSE, sum |-> 90 * 60, n |-> 1]
    /\ result.value.total_revenue_hours = Num(90 * 60)
    /\ result.value.total_trips = 2

(***************************************************************************)
(* The feeds explored for the order of the route frequencies: three routes *)
(* with both names, the trips T1, T2 on R2, T3, T4 on R1, T5, T6 on R3,    *)
(* all of service S1, with any first-stop departures.                      *)
(***************************************************************************)
MaxSortTrips == 5

SortRoutes ==
    <<RouteRow("R1", "1", "Main"), RouteRow("R2", "2", "Oak"), RouteRow("R3", "3", "Pine")>>

RouteOfTrip == <<"R2", "R2", "R1", "R1", "R3", "R3">>

InitSorted ==
    /\ \E times \in SeqsUpTo(DirectionTimes, MaxSortTrips) :
           gtfs_data = TripFeed(SortRoutes,
                                [i \in 1..Len(times) |->
                                    Choice(RouteOfTrip[i], "S1", times[i])])
    /\ call = Call("none", 0, NoneId, NoneId)
    /\ result = Ok(<<>>)
    /\ kept = NoneKept
    /\ threads = NoThreads
    /\ session = NoSession

SpecSorted == InitSorted /\ [][NextFrequencies]_vars

\* C20: the rows of routeFrequencies are sorted ascending by avg_headway_min:
\* of two consecutive rows with a headway the first has the shorter or equal
\* one, and no row without a headway precedes a row with one.
C20_SortedByHeadway ==
    (call.op = "calculate_route_frequencies" /\ result.status = "ok") =>
        /\ \A i \in 1..(Len(result.value) - 1) :
               LET a == result.value[i].avg_headway_min
                   b == result.value[i + 1].avg_headway_min
               IN  (~a.nan /\ ~b.nan) => a.sum * b.n <= b.sum * a.n
        /\ \A i, j \in 1..Len(result.value) :
               (i < j /\ result.value[i].avg_headway_min.nan) =>
                   result.value[j].avg_headway_min.nan

\* R2 runs every 10 minutes, R1 every 30, R3 has one trip: R2, R1, R3
C20_Witness ==
    /\ call.op = "calculate_route_frequencies"
    /\ result.status = "ok"
    /\ Len(result.value) = 3
    /\ result.value[1].route_id = "R2"
    /\ AvgIs(result.value[1].avg_headway_min, 10)
    /\ result.value[2].route_id = "R1"
    /\ AvgIs(result.value[2].avg_headway_min, 30)
    /\ result.value[3].route_id = "R3"
    /\ result.value[3].avg_headway_min.nan

(***************************************************************************)
(* The dashboard's use of the engine: it calls the functions one after the *)
(* other on the loaded tables, holds on to a result (route_frequencies,    *)
(* trips_by_hour) and calls the same function again later.                 *)
(***************************************************************************)
MaxEngineTrips == 2

EngineChoices == {Choice("R1", "S1", Time(8, 0, 0)), Choice("R1", "S2", Time(8, 30, 0))}

EngineCalendar == <<CalendarRow("S1", 1, 3, <<1, 1, 1, 1, 1, 0, 0>>)>>

\* service S2 added on day 2
EngineExceptions == <<CalendarDateRow("S2", 2, 1)>>

InitEngine ==
    /\ \E choices \in SeqsUpTo(EngineChoices, MaxEngineTrips) :
           gtfs_data =
               Feed(RequiredTables \cup {"calendar", "calendar_dates"},
                    PeakRoutes, TripsOf(choices), StopTimesOf(choices), FixtureStops,
                    EngineCalendar, EngineExceptions)
    /\ call = Call("none", 0, NoneId, NoneId)
    /\ result = Ok(<<>>)
    /\ kept = NoneKept
    /\ threads = NoThreads
    /\ session = NoSession

\* the caller holds on to the result of the call it just made
KeepResult ==
    /\ call.op # "none"
    /\ kept' = [call |-> call, result |-> result, other |-> FALSE]
    /\ UNCHANGED <<gtfs_data, call, result, threads, session>>

\* another call was made since the result was kept
NoteOtherCall ==
    /\ kept.call.op # "none"
    /\ call # kept.call
    /\ ~kept.other
    /\ kept' = [kept EXCEPT !.other = TRUE]
    /\ UNCHANGED <<gtfs_data, call, result, threads, session>>

NextDashboard == NextEngine \/ KeepResult \/ NoteOtherCall

SpecEngine == InitEngine /\ [][NextDashboard]_vars

C18_TablesUnchanged == [][gtfs_data' = gtfs_data]_vars

\* a call that returned was kept, other calls followed, the last one raised
C18_Witness ==
    /\ kept.call.op = "calculate_route_frequencies"
    /\ kept.result.status = "ok"
    /\ kept.other
    /\ call.op = "get_active_service"
    /\ result.status = "error"

(***************************************************************************)
(* Metric calls running at once on the loaded tables (one per UI panel).   *)
(* A call reads the tables it needs one after the other, in the order of   *)
(* its code, each as it is in the dict at that moment, and then computes   *)
(* on what it read; the steps of different calls interleave freely.        *)
(***************************************************************************)
MaxThreads == 2

Threads == 1..MaxThreads

\* the tables a function reads, in the order of its dict lookups
Reads(op) ==
    CASE op = "get_active_service" -> <<"calendar", "calendar_dates">>
      [] op = "calculate_system_metrics" -> <<"routes", "stops", "trips">>
      [] op = "calculate_route_frequencies" -> <<"routes", "trips", "stop_times">>
      [] op = "calculate_service_hours" -> <<"trips", "stop_times">>
      [] op = "calculate_stop_metrics" -> <<"trips", "stop_times", "stops">>
      [] op = "calculate_trips_by_hour" -> <<"trips", "stop_times">>
      [] op = "calculate_peak_offpeak_metrics" -> <<"trips", "stop_times">>
      [] op = "get_route_details" -> <<"routes", "trips", "stop_times", "stops">>
      [] OTHER -> <<>>

\* what the function of the call returns or raises on the tables gtfs
EngineResult(c, gtfs) ==
    CASE c.op = "get_active_service" -> GetActiveService(gtfs, c.date)
      [] c.op = "calculate_system_metrics" -> CalculateSystemMetrics(gtfs)
      [] c.op = "calculate_route_frequencies" -> CalculateRouteFrequencies(gtfs, c.service_id)
      [] c.op = "calculate_service_hours" -> CalculateServiceHours(gtfs, c.service_id)
      [] c.op = "calculate_stop_metrics" -> CalculateStopMetrics(gtfs, c.service_id)
      [] c.op = "calculate_trips_by_hour" -> CalculateTripsByHour(gtfs, c.service_id)
      [] c.op = "calculate_peak_offpeak_metrics" ->
             CalculatePeakOffpeakMetrics(gtfs, c.service_id)
      [] c.op = "get_route_details" -> GetRouteDetails(gtfs, c.route_id, c.service_id)
      [] OTHER -> Ok(<<>>)

\* no table read yet
BlankFeed == Feed({}, <<>>, <<>>, <<>>, <<>>, <<>>, <<>>)

IdleThread ==
    [pc |-> "idle", call |-> Call("none", 0, NoneId, NoneId), next |-> 0,
     seen |-> BlankFeed, tables |-> BlankFeed, overlapped |-> FALSE,
     result |-> Ok(<<>>)]

\* the calls the panels make: two metrics, each for either service
ConcurrentCalls ==
    {Call(op, 0, sid, NoneId) :
        op \in {"calculate_route_frequencies", "calculate_peak_offpeak_metrics"},
        sid \in ServiceIds}

\* R1 runs at 08:00 and 08:30 on S1, R2 at 08:10 and 17:00 on S2
ConcurrentTrips ==
    <<Choice("R1", "S1", Time(8, 0, 0)), Choice("R1", "S1", Time(8, 30, 0)),
      Choice("R2", "S2", Time(8, 10, 0)), Choice("R2", "S2", Time(17, 0, 0))>>

InitConcurrent ==
    /\ gtfs_data = TripFeed(PeakRoutes, ConcurrentTrips)
    /\ call = Call("none", 0, NoneId, NoneId)
    /\ result = Ok(<<>>)
    /\ kept = NoneKept
    /\ threads = [p \in Threads |-> IdleThread]
    /\ session = NoSession

\* some other call is under way
OthersRunning(p) == \E q \in DOMAIN threads : q # p /\ threads[q].pc = "reading"

\* a panel starts a call on the loaded tables
StartCall(p) ==
    /\ threads[p].pc = "idle"
    /\ \E c \in ConcurrentCalls :
           threads' = [threads EXCEPT ![p] =
                          [IdleThread EXCEPT !.pc = "reading", !.call = c, !.next = 1,
                                             !.tables = gtfs_data]]
    /\ UNCHANGED <<gtfs_data, call, result, kept, session>>

\* the call reads its next table from the dict
ReadTable(p) ==
    /\ threads[p].pc = "reading"
    /\ threads[p].next <= Len(Reads(threads[p].call.op))
    /\ LET table == Reads(threads[p].call.op)[threads[p].next]
       IN  threads' = [threads EXCEPT
               ![p].next = @ + 1,
               ![p].overlapped = @ \/ OthersRunning(p),
               ![p].seen = IF Has(gtfs_data, table)
                           THEN [@ EXCEPT ![table] = gtfs_data[table],
                                          !.keys = @ \cup {table}]
                           ELSE @]
    /\ UNCHANGED <<gtfs_data, call, result, kept, session>>

\* the computation of a peak call converting departure_time in the loaded
\* stop_times table (line 287 on the table itself instead of the copy)
ComputeInPlace(p) ==
    /\ threads[p].pc = "reading"
    /\ threads[p].next > Len(Reads(threads[p].call.op))
    /\ threads' = [threads EXCEPT
           ![p].pc = "done",
           ![p].overlapped = @ \/ OthersRunning(p),
           ![p].result = EngineResult(threads[p].call, threads[p].seen)]
    /\ gtfs_data' =
           IF threads[p].call.op = "calculate_peak_offpeak_metrics"
           THEN [gtfs_data EXCEPT !.stop_times =
                    [i \in 1..Len(@) |->
                        [@[i] EXCEPT !.departure_time =
                            IF @.kind = "hms" THEN [@ EXCEPT !.kind = "timedelta"] ELSE @]]]
           ELSE gtfs_data
    /\ UNCHANGED <<call, result, kept, session>>

\* the call computes its result on the frames it built from what it read
Compute(p) ==
    /\ threads[p].pc = "reading"
    /\ threads[p].next > Len(Reads(threads[p].call.op))
    /\ threads' = [threads EXCEPT
           ![p].pc = "done",
           ![p].overlapped = @ \/ OthersRunning(p),
           ![p].result = EngineResult(threads[p].call, threads[p].seen)]
    /\ UNCHANGED <<gtfs_data, call, result, kept, session>>

\* the call returns to its panel
ReturnResult(p) ==
    /\ threads[p].pc = "done"
    /\ call' = threads[p].call
    /\ result' = threads[p].result
    /\ threads' = [threads EXCEPT ![p] = IdleThread]
    /\ UNCHANGED <<gtfs_data, kept, session>>

NextConcurrent ==
    \E p \in Threads : StartCall(p) \/ ReadTable(p) \/ Compute(p) \/ ReturnResult(p)

SpecConcurrent == InitConcurrent /\ [][NextConcurrent]_vars

FilteredTripIds(gtfs, service_id) ==
    {t.trip_id : t \in FilteredTrips(gtfs, service_id)}

\* the HH of the departure at the trip's origin
OriginHour(gtfs, trip_id) == FirstDeparture(gtfs, trip_id).h

\* C21: tripsByHour has one row for each hour HH observed among the first-stop
\* departures of the filtered trips, HH not reduced modulo 24; the row counts
\* the distinct trips departing in that hour; the rows ascend by hour and the
\* counts sum to the number of distinct filtered trips with stop_times.
C21_TripsPerObservedHour ==
    (call.op = "calculate_trips_by_hour" /\ result.status = "ok") =>
        LET ids == FilteredTripIds(gtfs_data, call.service_id)
            rows == result.value
        IN  /\ {rows[i].hour : i \in 1..Len(rows)} =
                   {OriginHour(gtfs_data, id) : id \in ids}
            /\ \A i \in 1..Len(rows) :
                   rows[i].trip_count =
                       Cardinality({id \in ids : OriginHour(gtfs_data, id) = rows[i].hour})
            /\ \A i \in 1..(Len(rows) - 1) : rows[i].hour < rows[i + 1].hour
            /\ SumSeq([i \in 1..Len(rows) |-> rows[i].trip_count]) = Cardinality(ids)

\* a trip leaving at 25:10 listed before a trip leaving at 08:00
C21_Witness ==
    /\ call.op = "calculate_trips_by_hour"
    /\ call.service_id = NoneId
    /\ result.status = "ok"
    /\ Len(gtfs_data.stop_times) = 2
    /\ gtfs_data.stop_times[1].departure_time = Time(25, 10, 0)
    /\ gtfs_data.stop_times[2].departure_time = Time(8, 0, 0)
    /\ gtfs_data.stop_times[1].trip_id # gtfs_data.stop_times[2].trip_id
    /\ result.value = <<[hour |-> 8, trip_count |-> 1], [hour |-> 25, trip_count |-> 1]>>

(***************************************************************************)
(* The feeds explored for the stop metrics: trips T1 and T2 (a trip_id may *)
(* be listed twice, a route_id may be missing), each serving any of the    *)
(* stops A, B and C; stops holds A and B only.                             *)
(***************************************************************************)
MaxStopTrips == 2

StopTripRows ==
    {TripRow("T1", "R1", "S1", 0, "SH1"), TripRow("T1", "R2", "S1", 0, "SH1"),
     TripRow("T2", "R1", "S1", 0, "SH1"), TripRow("T2", "R2", "S2", 0, "SH1"),
     TripRow("T2", NA, "S1", 0, "SH1")}

\* the (trip, stop) pairs that may be served, in the order of the table
Servings == <<<<"T1", "A">>, <<"T1", "B">>, <<"T1", "C">>,
              <<"T2", "B">>, <<"T2", "A">>, <<"T2", "C">>>>

ServedStopTimes(served) ==
    LET kept_rows == SelectSeq([i \in 1..Len(Servings) |-> i], LAMBDA i : i \in served)
    IN  [k \in 1..Len(kept_rows) |->
            StopTimeRow(Servings[kept_rows[k]][1], kept_rows[k], Time(8, 0, 0),
                        Time(8, 0, 0), Servings[kept_rows[k]][2])]

InitStops ==
    /\ \E trips \in SeqsUpTo(StopTripRows, MaxStopTrips),
          served \in SUBSET (1..Len(Servings)) :
           gtfs_data = Feed(RequiredTables, PeakRoutes, trips, ServedStopTimes(served),
                            FixtureStops, <<>>, <<>>)
    /\ call = Call("none", 0, NoneId, NoneId)
    /\ result = Ok(<<>>)
    /\ kept = NoneKept
    /\ threads = NoThreads
    /\ session = NoSession

NextStops == CalculateStopMetricsCall

SpecStops == InitStops /\ [][NextStops]_vars

StopsOk == call.op = "calculate_stop_metrics" /\ result.status = "ok"

\* the trips rows of the filtered set with a stop_time at the stop
TripsAt(stop_id) ==
    {t \in Elems(gtfs_data.trips) :
        /\ call.service_id = NoneId \/ t.service_id = call.service_id
        /\ \E st \in Elems(gtfs_data.stop_times) :
               st.trip_id = t.trip_id /\ st.stop_id = stop_id}

StopIdsOf(gtfs) == {s.stop_id : s \in Elems(gtfs.stops)}

ServedStopIds == {st.stop_id : st \in Elems(gtfs_data.stop_times)}

\* C22: stopMetrics has one row for each stop of the stops table that a
\* filtered trip serves, with the stop's name, the number of distinct
\* trip_ids and the number of distinct route_ids with a stop_time at the stop;
\* the rows descend by the number of trips.
C22_StopActivity ==
    StopsOk =>
        LET rows == result.value
        IN  /\ {rows[i].stop_id : i \in 1..Len(rows)} =
                   {s \in StopIdsOf(gtfs_data) : TripsAt(s) # {}}
            /\ \A i, j \in 1..Len(rows) : rows[i].stop_id = rows[j].stop_id => i = j
            /\ \A i \in 1..Len(rows) :
                   /\ rows[i].n_trips =
                          Cardinality({t.trip_id : t \in TripsAt(rows[i].stop_id)})
                   /\ rows[i].n_routes =
                          Cardinality({t.route_id : t \in TripsAt(rows[i].stop_id)} \ {NA})
                   /\ \E s \in Elems(gtfs_data.stops) :
                          s.stop_id = rows[i].stop_id /\ s.stop_name = rows[i].stop_name
            /\ \A i \in 1..(Len(rows) - 1) : rows[i].n_trips >= rows[i + 1].n_trips

\* stop B, served by two trips of two routes, comes before stop A, served
\* by one of them; stop C is served and is no stop of the stops table
C22_Witness ==
    /\ StopsOk
    /\ call.service_id = NoneId
    /\ Len(gtfs_data.trips) = 2
    /\ gtfs_data.trips[1] = TripRow("T1", "R1", "S1", 0, "SH1")
    /\ gtfs_data.trips[2] = TripRow("T2", "R2", "S2", 0, "SH1")
    /\ "C" \in ServedStopIds
    /\ Len(result.value) = 2
    /\ result.value[1].stop_id = "B"
    /\ result.value[1].n_trips = 2
    /\ result.value[1].n_routes = 2
    /\ result.value[2].stop_id = "A"
    /\ result.value[2].n_trips = 1

\* trip_id is unique in trips
UniqueTripIds ==
    \A i, j \in 1..Len(gtfs_data.trips) :
        gtfs_data.trips[i].trip_id = gtfs_data.trips[j].trip_id => i = j

\* every trip has a route_id
NoMissingRouteId == \A t \in Elems(gtfs_data.trips) : t.route_id # NA

\* every row is of a stop of the stops table with a stop_time in the filtered set
RowsOfServedStops ==
    \A i \in 1..Len(result.value) :
        /\ result.value[i].stop_id \in StopIdsOf(gtfs_data)
        /\ TripsAt(result.value[i].stop_id) # {}

RouteCountsBounded ==
    \A i \in 1..Len(result.value) :
        /\ 1 <= result.value[i].n_routes
        /\ result.value[i].n_routes <= result.value[i].n_trips

\* C30 as stated: in every row of stopMetrics 1 <= n_routes <= n_trips,
\* provided trip_id is unique in trips; a stop with no stop_time in the
\* filtered set, or whose stop_id is not in stops, has no row.
C30_RouteCountsWhenTripsUnique ==
    StopsOk =>
        /\ UniqueTripIds => RouteCountsBounded
        /\ RowsOfServedStops

\* C30, amended: in every row of stopMetrics 1 <= n_routes <= n_trips,
\* provided trip_id is unique in trips and every trip has a route_id; a stop
\* with no stop_time in the filtered set, or whose stop_id is not in stops,
\* has no row.
C30_RouteCountsWhenRoutesKnown ==
    StopsOk =>
        /\ (UniqueTripIds /\ NoMissingRouteId) => RouteCountsBounded
        /\ RowsOfServedStops

\* the filter on S1 leaves stop A with one trip of two and stop B without a
\* stop_time; stop C is served and is not in stops
C30_Witness ==
    /\ StopsOk
    /\ call.service_id = "S1"
    /\ gtfs_data.trips = <<TripRow("T1", "R1", "S1", 0, "SH1"),
                           TripRow("T2", "R2", "S2", 0, "SH1")>>
    /\ \E st \in Elems(gtfs_data.stop_times) : st.trip_id = "T2" /\ st.stop_id = "B"
    /\ \E st \in Elems(gtfs_data.stop_times) : st.trip_id = "T1" /\ st.stop_id = "C"
    /\ \E st \in Elems(gtfs_data.stop_times) : st.trip_id = "T2" /\ st.stop_id = "A"
    /\ result.value = <<[stop_id |-> "A", n_trips |-> 1, n_routes |-> 1,
                         stop_name |-> "Alpha"]>>

(***************************************************************************)
(* The feeds explored for the route polyline: trips of route R1 with any   *)
(* of two shapes, in any order; the points of the shapes are listed out of *)
(* sequence.                                                               *)
(***************************************************************************)
MaxShapeTrips == 3

ShapeChoices ==
    {[route |-> "R1", service |-> sid, dep |-> Time(8, 0, 0), direction |-> 0,
      shape |-> shape] : sid \in ServiceIds, shape \in {"SH1", "SH2"}}

FixtureShapes ==
    <<ShapeRow("SH1", 2, 12, 12), ShapeRow("SH2", 1, 21, 21),
      ShapeRow("SH1", 1, 11, 11), ShapeRow("SH2", 2, 22, 22)>>

WithShapes(gtfs, shapes) ==
    [gtfs EXCEPT !.keys = @ \cup {"shapes"}, !.shapes = shapes]

InitShapes ==
    /\ \E choices \in SeqsUpTo(ShapeChoices, MaxShapeTrips), loaded \in BOOLEAN :
           gtfs_data = IF loaded
                       THEN WithShapes(TripFeed(PeakRoutes, choices), FixtureShapes)
                       ELSE TripFeed(PeakRoutes, choices)
    /\ call = Call("none", 0, NoneId, NoneId)
    /\ result = Ok(<<>>)
    /\ kept = NoneKept
    /\ threads = NoThreads
    /\ session = NoSession

SpecShapes == InitShapes /\ [][NextRoute]_vars

\* the trips rows of the route in the filtered set, in the order of the table
RouteTripRows ==
    SelectSeq(gtfs_data.trips,
              LAMBDA t : /\ t.route_id = call.route_id
                         /\ call.service_id = NoneId \/ t.service_id = call.service_id)

ShapeUses(trips, shape_id) ==
    Cardinality({i \in 1..Len(trips) : trips[i].shape_id = shape_id})

\* the shape_id most trips use; of several, the one first in the trips table
MostUsedFirstSeen(trips) ==
    trips[CHOOSE i \in 1..Len(trips) :
              /\ \A j \in 1..Len(trips) :
                     ShapeUses(trips, trips[j].shape_id) <= ShapeUses(trips, trips[i].shape_id)
              /\ \A j \in 1..(i - 1) :
                     ShapeUses(trips, trips[j].shape_id) < ShapeUses(trips, trips[i].shape_id)
          ].shape_id

\* the points of the shape in the order of shape_pt_sequence
Polyline(shape_id) ==
    LET points == {r \in Elems(gtfs_data.shapes) : r.shape_id = shape_id}
        sequences == SortedInts({r.shape_pt_sequence : r \in points})
    IN  [k \in 1..Len(sequences) |->
            LET r == CHOOSE r \in points : r.shape_pt_sequence = sequences[k]
            IN  <<r.shape_pt_lat, r.shape_pt_lon>>]

\* C23: with shapes present, routeDetails returns the polyline of the
\* shape_id most of the route's filtered trips use, the points in the order of
\* shape_pt_sequence; of several shape_ids with the largest count, the one
\* first in the trips table.
C23_MostCommonShapeFirstSeen ==
    (RouteOk /\ Has(gtfs_data, "shapes") /\ RouteTripRows # <<>>) =>
        result.value.shape_coords = Polyline(MostUsedFirstSeen(RouteTripRows))

(***************************************************************************)
(* The feeds explored for the stop list of a route: trips T1 (service S1)  *)
(* and T2 (service S2) of route R1, with any short stop_times table over   *)
(* the stops A, B and C; stops holds A and B only.                         *)
(***************************************************************************)
MaxRouteStopTimes == 3

RouteStopRows ==
    {StopTimeRow(trip, p[1], Time(8, 0, 0), Time(8, 0, 0), p[2]) :
        trip \in {"T1", "T2"},
        p \in {<<1, "A">>, <<1, "B">>, <<2, "A">>, <<2, "C">>, <<3, "A">>}}

InitRouteStops ==
    /\ \E stop_times \in SeqsUpTo(RouteStopRows, MaxRouteStopTimes) :
           gtfs_data = Feed(RequiredTables, FixtureRoutes, HourTrips, stop_times,
                            FixtureStops, <<>>, <<>>)
    /\ call = Call("none", 0, NoneId, NoneId)
    /\ result = Ok(<<>>)
    /\ kept = NoneKept
    /\ threads = NoThreads
    /\ session = NoSession

SpecRouteStops == InitRouteStops /\ [][NextRoute]_vars

\* the stop_times rows of the route's filtered trips at the stop
RouteStopTimesAt(stop_id) ==
    {st \in Elems(gtfs_data.stop_times) :
        /\ st.stop_id = stop_id
        /\ \E k \in 1..Len(RouteTripRows) : RouteTripRows[k].trip_id = st.trip_id}

MinSequenceAt(stop_id) == MinOf({st.stop_sequence : st \in RouteStopTimesAt(stop_id)})

\* C24: the stop list of routeDetails holds each stop_id (of the stops table)
\* that the route's filtered trips serve exactly once, in ascending order of
\* the minimum stop_sequence at which the stop occurs in those trips.
C24_StopListByMinSequence ==
    RouteOk =>
        LET stops == result.value.stops
        IN  /\ {stops[i].stop_id : i \in 1..Len(stops)} =
                   {s \in StopIdsOf(gtfs_data) : RouteStopTimesAt(s) # {}}
            /\ \A i, j \in 1..Len(stops) : stops[i].stop_id = stops[j].stop_id => i = j
            /\ \A i \in 1..Len(stops) :
                   stops[i].stop_sequence = MinSequenceAt(stops[i].stop_id)
            /\ \A i \in 1..(Len(stops) - 1) :
                   MinSequenceAt(stops[i].stop_id) <= MinSequenceAt(stops[i + 1].stop_id)

\* stop A is listed at sequence 3 and then at sequence 2, stop B at sequence
\* 1: B comes first
C24_Witness ==
    /\ RouteOk
    /\ call.service_id = NoneId
    /\ Len(gtfs_data.stop_times) = 3
    /\ gtfs_data.stop_times[1].stop_id = "A"
    /\ gtfs_data.stop_times[1].stop_sequence = 3
    /\ gtfs_data.stop_times[2].stop_id = "A"
    /\ gtfs_data.stop_times[2].stop_sequence = 2
    /\ gtfs_data.stop_times[3].stop_id = "B"
    /\ Len(result.value.stops) = 2
    /\ result.value.stops[1].stop_id = "B"
    /\ result.value.stops[2].stop_id = "A"
    /\ result.value.stops[2].stop_sequence = 2

(***************************************************************************)
(* The feeds explored for the service span: trips of route R1 departing at *)
(* 8:30 and 9:00 written without a leading zero, at 10:00 and at 25:10, in *)
(* any order.                                                              *)
(***************************************************************************)
MaxSpanTrips == 3

SpanTimes == {ShortTime(8, 30, 0), ShortTime(9, 0, 0), Time(10, 0, 0), Time(25, 10, 0)}

SpanChoices == {Choice("R1", sid, t) : sid \in ServiceIds, t \in SpanTimes}

InitSpan ==
    /\ \E choices \in SeqsUpTo(SpanChoices, MaxSpanTrips) :
           gtfs_data = TripFeed(PeakRoutes, choices)
    /\ call = Call("none", 0, NoneId, NoneId)
    /\ result = Ok(<<>>)
    /\ kept = NoneKept
    /\ threads = NoThreads
    /\ session = NoSession

SpecSpan == InitSpan /\ [][NextRoute]_vars

\* the offsets, in seconds from the start of the service day, of the
\* first-stop departures of the route's filtered trips
DepartureOffsets ==
    {Seconds(FirstDeparture(gtfs_data, RouteTripRows[k].trip_id)) :
        k \in 1..Len(RouteTripRows)}

\* C25: first_trip and last_trip of routeDetails are the earliest and the
\* latest first-stop departure of the route's filtered trips, compared as
\* offsets from the start of the service day, and service_span_hours is
\* (last - first in minutes) / 60, hence never negative.
C25_SpanOfEarliestAndLatest ==
    (RouteOk /\ RouteTripRows # <<>>) =>
        /\ Seconds(result.value.first_trip) = MinOf(DepartureOffsets)
        /\ Seconds(result.value.last_trip) = MaxOf(DepartureOffsets)
        /\ result.value.service_span_hours =
               Num(RoundDiv((MaxOf(DepartureOffsets) - MinOf(DepartureOffsets)) * 100, 3600))
        /\ result.value.service_span_hours.v >= 0

(***************************************************************************)
(* The feeds explored for the service filter: trips of routes R1 and R2 on *)
(* services S1 and S2, the departure time of a trip of S2 possibly missing.*)
(***************************************************************************)
MaxFilterTrips == 2

FilterChoices ==
    {Choice(route, "S1", t) : route \in {"R1", "R2"}, t \in {Time(8, 0, 0), Time(8, 30, 0)}}
        \cup {Choice(route, "S2", t) : route \in {"R1", "R2"}, t \in {Time(8, 10, 0), NaT}}

InitFilter ==
    /\ \E choices \in SeqsUpTo(FilterChoices, MaxFilterTrips) :
           gtfs_data = TripFeed(PeakRoutes, choices)
    /\ call = Call("none", 0, NoneId, NoneId)
    /\ result = Ok(<<>>)
    /\ kept = NoneKept
    /\ threads = NoThreads
    /\ session = NoSession

\* the functions that take a service_id
NextMetrics ==
    \/ CalculateRouteFrequenciesCall
    \/ CalculateServiceHoursCall
    \/ CalculateStopMetricsCall
    \/ CalculateTripsByHourCall
    \/ CalculatePeakOffpeakMetricsCall
    \/ GetRouteDetailsCall

SpecFilter == InitFilter /\ [][NextMetrics]_vars

ServiceOps ==
    {"calculate_route_frequencies", "calculate_service_hours", "calculate_stop_metrics",
     "calculate_trips_by_hour", "calculate_peak_offpeak_metrics", "get_route_details"}

\* the table set with trips restricted to the trips of the service
RestrictedTo(gtfs, service_id) ==
    [gtfs EXCEPT !.trips = SelectSeq(@, LAMBDA t : t.service_id = service_id)]

\* the trip_ids of the trips, of any service, that have stop_times
TripIdsWithStopTimes ==
    {t.trip_id : t \in {u \in Elems(gtfs_data.trips) :
                           \E st \in Elems(gtfs_data.stop_times) : st.trip_id = u.trip_id}}

\* C26: a metric called with a service_id returns (or raises) what it returns
\* with service_id = null on the table set whose trips are restricted to that
\* service_id; with service_id = null every trip contributes.
C26_FilterIsRestriction ==
    call.op \in ServiceOps =>
        IF call.service_id # NoneId
        THEN result = EngineResult([call EXCEPT !.service_id = NoneId],
                                   RestrictedTo(gtfs_data, call.service_id))
        ELSE /\ (call.op = "calculate_service_hours" /\ result.status = "ok") =>
                    result.value.total_trips = Cardinality(TripIdsWithStopTimes)
             /\ (call.op = "calculate_trips_by_hour" /\ result.status = "ok") =>
                    SumSeq([i \in 1..Len(result.value) |-> result.value[i].trip_count]) =
                        Cardinality(TripIdsWithStopTimes)
             /\ (call.op = "get_route_details" /\ result.status = "ok") =>
                    result.value.num_trips =
                        Cardinality({t \in Elems(gtfs_data.trips) :
                                        t.route_id = call.route_id})

\* trips by hour for S1 on a feed whose S2 trip has no departure time
C26_Witness ==
    /\ call.op = "calculate_trips_by_hour"
    /\ call.service_id = "S1"
    /\ Len(gtfs_data.trips) = 2
    /\ gtfs_data.trips[1].service_id = "S2"
    /\ gtfs_data.trips[2].service_id = "S1"
    /\ FirstDeparture(gtfs_data, "T1") = NaT
    /\ result = Ok(<<[hour |-> 8, trip_count |-> 1]>>)
    /\ CalculateTripsByHour(gtfs_data, NoneId).status = "error"

(***************************************************************************)
(* The reduction to the first stop of each trip, applied to the joined     *)
(* frame of the feeds explored for the trips by hour (stop_times rows that *)
(* share a trip's minimum stop_sequence and differ in departure_time).     *)
(***************************************************************************)
\* lines 191-201 (likewise 46-59, 275-284, 366-386): the joined frame of the
\* filtered trips, reduced to the first stop of each trip
FirstStopPerTripCall ==
    \E service_id \in ServiceArgs :
        /\ call' = Call("first_stops", 0, service_id, NoneId)
        /\ result' = Ok(FirstStops(FilterService(
                            Merge(gtfs_data.trips, gtfs_data.stop_times, "trip_id"),
                            service_id)))
        /\ UNCHANGED <<gtfs_data, kept, threads, session>>

NextFirstStop == FirstStopPerTripCall

SpecFirstStop == InitHour /\ [][NextFirstStop]_vars

\* the positions in stop_times of the rows of the trip
StopTimesOfTrip(trip_id) ==
    {i \in 1..Len(gtfs_data.stop_times) : gtfs_data.stop_times[i].trip_id = trip_id}

\* among them the first that holds the trip's minimum stop_sequence
OriginRow(trip_id) ==
    LET own == StopTimesOfTrip(trip_id)
        st == gtfs_data.stop_times
    IN  st[CHOOSE i \in own :
               /\ \A j \in own : st[i].stop_sequence <= st[j].stop_sequence
               /\ \A j \in own : j < i => st[i].stop_sequence < st[j].stop_sequence]

\* C27: the reduction to the first stop of each trip yields one row for each
\* trip_id of its input and no other row; the row holds the minimum
\* stop_sequence of the trip, and of several rows with that minimum it is the
\* first in the order of the input.
C27_OneFirstStopPerTrip ==
    call.op = "first_stops" =>
        LET first_stops == result.value
            ids == FilteredTripIds(gtfs_data, call.service_id)
        IN  /\ {first_stops[i].trip_id : i \in 1..Len(first_stops)} = ids
            /\ Len(first_stops) = Cardinality(ids)
            /\ \A i \in 1..Len(first_stops) :
                   LET origin == OriginRow(first_stops[i].trip_id)
                   IN  /\ first_stops[i].stop_sequence = origin.stop_sequence
                       /\ first_stops[i].departure_time = origin.departure_time
                       /\ \A j \in StopTimesOfTrip(first_stops[i].trip_id) :
                              first_stops[i].stop_sequence
                                  <= gtfs_data.stop_times[j].stop_sequence

\* a trip whose rows at stop_sequence 1 depart at 25:10 and then at 08:00,
\* listed after its row at stop_sequence 2
C27_Witness ==
    /\ call.op = "first_stops"
    /\ call.service_id = NoneId
    /\ Len(gtfs_data.stop_times) = 3
    /\ \A i \in 1..3 : gtfs_data.stop_times[i].trip_id = "T1"
    /\ gtfs_data.stop_times[1].stop_sequence = 2
    /\ gtfs_data.stop_times[2].stop_sequence = 1
    /\ gtfs_data.stop_times[2].departure_time = Time(25, 10, 0)
    /\ gtfs_data.stop_times[3].stop_sequence = 1
    /\ gtfs_data.stop_times[3].departure_time = Time(8, 0, 0)
    /\ Len(result.value) = 1
    /\ result.value[1].departure_time = Time(25, 10, 0)

(***************************************************************************)
(* The dashboard (app.py).  A feed is loaded from a URL into the session   *)
(* (lines 44-53); the script then resolves the active services of the      *)
(* analysis date (lines 55-68) and makes its metric calls in the order of  *)
(* the script (lines 71-280); an exception ends the run at line 316.       *)
(* session.pc is the line the run is at.                                   *)
(***************************************************************************)
Urls == {"u1", "u2"}

OptionalTables == {"calendar", "calendar_dates"}

\* what a URL serves at the time of a load: whether the download and the
\* extraction succeed, the files of the archive, whether they parse
Source(download, zip, files, parses) ==
    [download |-> download, zip |-> zip, files |-> files, parses |-> parses]

Sources ==
    {Source(TRUE, TRUE, RequiredTables \cup optional, TRUE) :
        optional \in {{}, {"calendar"}, OptionalTables}}
        \cup {Source(FALSE, TRUE, RequiredTables, TRUE),
              Source(TRUE, FALSE, RequiredTables, TRUE),
              Source(TRUE, TRUE, RequiredTables \ {"stop_times"}, TRUE),
              Source(TRUE, TRUE, {"calendar"}, TRUE),
              Source(TRUE, TRUE, RequiredTables \cup {"calendar"}, FALSE)}

\* S1 runs on days 1 to 2, S2 on day 2, S3 (a service without trips) on day
\* 3, all on weekdays; day 5 is a saturday
DashCalendar ==
    <<CalendarRow("S1", 1, 2, <<1, 1, 1, 1, 1, 0, 0>>),
      CalendarRow("S2", 2, 2, <<1, 1, 1, 1, 1, 0, 0>>),
      CalendarRow("S3", 3, 3, <<1, 1, 1, 1, 1, 0, 0>>)>>

\* service S1 removed on day 1
DashExceptions == <<CalendarDateRow("S1", 1, 2)>>

DashDates == {1, 2, 3, 5}

\* T1 on R1 and S1, T2 on R2 and S2
DashTrips == <<Choice("R1", "S1", Time(8, 0, 0)), Choice("R2", "S2", Time(8, 30, 0))>>

\* the rows of the files of the archive
FileTables(files) ==
    Feed(files,
         IF "routes" \in files THEN PeakRoutes ELSE <<>>,
         IF "trips" \in files THEN TripsOf(DashTrips) ELSE <<>>,
         IF "stop_times" \in files THEN StopTimesOf(DashTrips) ELSE <<>>,
         IF "stops" \in files THEN FixtureStops ELSE <<>>,
         IF "calendar" \in files THEN DashCalendar ELSE <<>>,
         IF "calendar_dates" \in files THEN DashExceptions ELSE <<>>)

\* data_loader.download_gtfs, lines 17-44
DownloadGtfs(source) ==
    IF source.download THEN Ok(<<>>) ELSE Raised("Exception: download")

\* data_loader.extract_gtfs, lines 62-71
ExtractGtfs(source) ==
    IF source.zip THEN Ok(<<>>) ELSE Raised("Exception: zip")

\* data_loader.validate_gtfs, lines 87-102
ValidateGtfs(source) ==
    IF RequiredTables \subseteq source.files THEN Ok(<<>>)
    ELSE Raised("Exception: missing files")

\* the pipeline without its validation step (line 119 left out)
LoadGtfsFromUrlUnvalidated(source) ==
    IF DownloadGtfs(source).status = "error" THEN DownloadGtfs(source)
    ELSE IF ExtractGtfs(source).status = "error" THEN ExtractGtfs(source)
    ELSE Ok(<<>>)

\* data_loader.load_gtfs_from_url, lines 117-120
LoadGtfsFromUrl(source) ==
    IF DownloadGtfs(source).status = "error" THEN DownloadGtfs(source)
    ELSE IF ExtractGtfs(source).status = "error" THEN ExtractGtfs(source)
    ELSE IF ValidateGtfs(source).status = "error" THEN ValidateGtfs(source)
    ELSE Ok(<<>>)

\* gtfs_parser.load_gtfs_tables, lines 22-37: a table for each file present;
\* read_csv raises on a file it cannot parse
LoadGtfsTables(source) ==
    IF source.parses THEN Ok(FileTables(source.files)) ELSE Raised("ParserError")

\* load_and_parse_gtfs under st.cache_data, lines 14-19: the table set cached
\* for the URL, or else the pipeline
LoadAndParseGtfs(cache, url, source) ==
    IF \E c \in cache : c.url = url
    THEN Ok((CHOOSE c \in cache : c.url = url).tables)
    ELSE IF LoadGtfsFromUrl(source).status = "error" THEN LoadGtfsFromUrl(source)
    ELSE LoadGtfsTables(source)

\* lines 44-53: the Analyze Feed button with a URL
AnalyzeFeed ==
    \E url \in Urls, source \in Sources :
        LET loaded == LoadAndParseGtfs(session.cache, url, source)
        IN  /\ call' = Call("load_and_parse_gtfs", 0, NoneId, NoneId)
            /\ result' = IF loaded.status = "ok" THEN Ok(<<>>) ELSE Raised(loaded.error)
            /\ IF loaded.status = "ok"
               THEN /\ gtfs_data' = loaded.value
                    /\ session' = [session EXCEPT
                           !.gtfs_url = url, !.loaded = TRUE, !.pc = 55,
                           !.active_services = <<>>, !.service_id = NoneId, !.used = {},
                           !.last_load = "ok", !.last_url = url,
                           !.cache = @ \cup {[url |-> url, tables |-> loaded.value]}]
               ELSE /\ gtfs_data' = gtfs_data
                    /\ session' = [session EXCEPT
                           !.pc = 55,
                           !.active_services = <<>>, !.service_id = NoneId, !.used = {},
                           !.last_load = "failed", !.last_url = url]
            /\ UNCHANGED <<kept, threads>>

\* no metric call at all: service_id None whatever the active services
ChooseServiceUnfiltered(active_services) == NoneId

\* lines 63-67: None when there is no active service, else the first
ChooseService(active_services) ==
    IF active_services = <<>> THEN NoneId ELSE active_services[1]

\* lines 55-68: a run of the script on the stored table set, with the date
\* of the date input
SelectDate ==
    \E date \in DashDates :
        /\ session.loaded
        /\ call' = Call("get_active_service", date, NoneId, NoneId)
        /\ result' = GetActiveService(gtfs_data, date)
        /\ session' =
               IF result'.status = "ok"
               THEN [session EXCEPT
                        !.pc = 71, !.date = date, !.active_services = result'.value,
                        !.service_id = ChooseService(result'.value), !.used = {}]
               ELSE [session EXCEPT
                        !.pc = 316, !.date = date, !.active_services = <<>>,
                        !.service_id = NoneId, !.used = {}]
        /\ UNCHANGED <<gtfs_data, kept, threads>>

\* the metric calls of the script, by line
Script ==
    <<[line |-> 71, op |-> "calculate_route_frequencies"],
      [line |-> 72, op |-> "calculate_trips_by_hour"],
      [line |-> 81, op |-> "calculate_system_metrics"],
      [line |-> 95, op |-> "calculate_service_hours"],
      [line |-> 109, op |-> "calculate_trips_by_hour"],
      [line |-> 115, op |-> "calculate_peak_offpeak_metrics"],
      [line |-> 251, op |-> "get_route_details"],
      [line |-> 279, op |-> "calculate_route_frequencies"],
      [line |-> 280, op |-> "calculate_stop_metrics"]>>

ScriptIndex(line) == CHOOSE i \in 1..Len(Script) : Script[i].line = line

\* the line after the call, 320 after the last
NextLine(line) ==
    IF ScriptIndex(line) = Len(Script) THEN 320 ELSE Script[ScriptIndex(line) + 1].line

\* lines 197-227: the routes offered by the selector, those with a trip (of
\* the service of the run when there is one); analysis dates from the
\* cutoff date of line 213 on
RoutesOffered(gtfs, service_id) ==
    {r.route_id : r \in {x \in Elems(gtfs.routes) :
        \E t \in Elems(gtfs.trips) :
            /\ t.route_id = x.route_id
            /\ service_id = NoneId \/ t.service_id = service_id}}

\* the next metric call of the run; an exception ends the run at line 316
RunMetric ==
    /\ session.loaded
    /\ \E i \in 1..Len(Script) : Script[i].line = session.pc
    /\ LET op == Script[ScriptIndex(session.pc)].op
           service_id == IF op = "calculate_system_metrics" THEN NoneId
                         ELSE session.service_id
       IN  \E route_id \in IF op = "get_route_details"
                           THEN RoutesOffered(gtfs_data, session.service_id)
                           ELSE {NoneId} :
               /\ call' = Call(op, 0, service_id, route_id)
               /\ result' = EngineResult(call', gtfs_data)
               /\ session' = [session EXCEPT
                      !.pc = IF result'.status = "ok" THEN NextLine(session.pc) ELSE 316,
                      !.used = IF op = "calculate_system_metrics" THEN @
                               ELSE @ \cup {service_id}]
    /\ UNCHANGED <<gtfs_data, kept, threads>>

\* lines 240-246: no route to select, the route details are left out
SkipRouteDetails ==
    /\ session.loaded
    /\ session.pc = 251
    /\ RoutesOffered(gtfs_data, session.service_id) = {}
    /\ session' = [session EXCEPT !.pc = NextLine(251)]
    /\ UNCHANGED <<gtfs_data, call, result, kept, threads>>

InitDashboard ==
    /\ gtfs_data = BlankFeed
    /\ call = Call("none", 0, NoneId, NoneId)
    /\ result = Ok(<<>>)
    /\ kept = NoneKept
    /\ threads = NoThreads
    /\ session = NoSession

NextSession == AnalyzeFeed \/ SelectDate \/ RunMetric \/ SkipRouteDetails

SpecDashboard == InitDashboard /\ [][NextSession]_vars

\* the active set of the calendar contract for the date of the run
ActiveOnRunDate ==
    IF Has(gtfs_data, "calendar")
    THEN (BaseServices(gtfs_data, session.date) \cup AddedServices(gtfs_data, session.date))
             \ RemovedServices(gtfs_data, session.date)
    ELSE {}

\* C28: the metrics of a run of the dashboard are computed with service_id
\* null exactly when no service is active on the analysis date; otherwise
\* every metric of the run is given one and the same service_id, a member of
\* the active set of the date.
C28_ServiceOfTheRun ==
    /\ \A service_id \in session.used :
           /\ service_id = NoneId <=> ActiveOnRunDate = {}
           /\ service_id # NoneId => service_id \in ActiveOnRunDate
           /\ service_id = session.service_id
    /\ Cardinality(session.used) <= 1
    /\ (call.op \in ServiceOps /\ session.pc # 0) => call.service_id \in session.used

\* a run made to its end on day 2, when S1 and S2 are active
C28_Witness ==
    /\ session.pc = 320
    /\ session.date = 2
    /\ ActiveOnRunDate = {"S1", "S2"}
    /\ session.used = {"S1"}
    /\ call.op = "calculate_stop_metrics"
    /\ call.service_id = "S1"
    /\ result.status = "ok"

\* C29: a load that fails, at the download, the extraction, the validation
\* of the required files or the parsing, leaves the stored table set and the
\* stored feed URL as they were, and the stored table set never lacks a
\* required table.
C29_FailedLoadKeepsFeed ==
    [][/\ (call'.op = "load_and_parse_gtfs" /\ session'.last_load = "failed") =>
              /\ gtfs_data' = gtfs_data
              /\ session'.gtfs_url = session.gtfs_url
              /\ session'.loaded = session.loaded
       /\ session'.loaded => RequiredTables \subseteq gtfs_data'.keys]_vars

\* the feed of u1 stays loaded after u2 served an archive without
\* stop_times.txt
C29_Witness ==
    /\ call.op = "load_and_parse_gtfs"
    /\ result = Raised("Exception: missing files")
    /\ session.last_load = "failed"
    /\ session.last_url = "u2"
    /\ session.loaded
    /\ session.gtfs_url = "u1"
    /\ Has(gtfs_data, "calendar")

====
